---- MODULE Spec2Model ----
(***************************************************************************)
(* The ChanLun structural-decomposition engine of services/chanlun.ts      *)
(* (src/unnamed/part_003): bar inclusion (merge), fractals, strokes (Bi),  *)
(* segments, pivots and the signal analysis.  Prices and MACD histogram    *)
(* values are integers; times are milliseconds.  Array positions kept in   *)
(* the data (originalEndIndex, ChanPoint.index, startBiIndex, ...) are the *)
(* code's 0-based indices; TLA+ sequences are 1-based, so the element at   *)
(* code index n is s[n + 1].                                               *)
(***************************************************************************)
EXTENDS Integers, Sequences, FiniteSets, TLC

VARIABLES
    pc,            \* position in the function being run
    hasKlines,     \* FALSE when calculateChanLun is called with no bar array
    klines,        \* the input Kline[]
    settings,      \* AppSettings: biType, biKCount
    macd,          \* the MACD series: hist per bar index, NoEntry for a hole
    idx,           \* processInclusionStrict: the loop variable i
    direction,     \* processInclusionStrict: 0 unknown, 1 up, -1 down
    mergedKlines,  \* processInclusionStrict: result
    fractals,      \* identifyFractals' result
    rawPoints,     \* generateBi: the filtered Point list
    biList,        \* generateBi's result
    segList,       \* generateSegmentsStrict's result
    biPivots,      \* generatePivotsFromBi(biList)
    segPivots,     \* generatePivotsFromSeg(segList)
    pivots,        \* calculateChanLun: allPivots
    buySellPoints, \* analyzeStructure: buySellPoints
    divergence,    \* analyzeStructure: latestDivergence
    trend,         \* analyzeStructure: trend
    returned       \* calculateChanLun: the results returned so far, one per call

vars == <<pc, hasKlines, klines, settings, macd, idx, direction, mergedKlines,
          fractals, rawPoints, biList, segList, biPivots,
          segPivots, pivots, buySellPoints, divergence, trend, returned>>

(***************************************************************************)
(* Bounds of the model.                                                    *)
(***************************************************************************)
MaxBars == 4      \* longest bar sequence given to processInclusionStrict
MaxPrice == 3     \* bar highs and lows are drawn from 1..MaxPrice

Max(a, b) == IF a >= b THEN a ELSE b
Min(a, b) == IF a <= b THEN a ELSE b
Abs(a) == IF a < 0 THEN 0 - a ELSE a
Last(s) == s[Len(s)]

\* One hour in milliseconds: the nominal bar interval of the recency window.
HourMs == 3600 * 1000

(***************************************************************************)
(* Data: Kline, MergedKline, ChanPoint.                                    *)
(***************************************************************************)
Kline(t, h, l) == [time |-> t, high |-> h, low |-> l]

\* The bar at code index n of a drawn sequence: times strictly increasing.
BarTime(n, interval) == (n + 1) * interval

MergedKline(k, s, e, ch) ==
    [time |-> k.time, high |-> k.high, low |-> k.low,
     originalStartIndex |-> s, originalEndIndex |-> e, children |-> ch]

ChanPoint(n, p, ty, t) == [index |-> n, price |-> p, type |-> ty, time |-> t]

(***************************************************************************)
(* 1. processInclusionStrict                                               *)
(***************************************************************************)
isNextInLast(nextK, lastK) == nextK.high <= lastK.high /\ nextK.low >= lastK.low
isLastInNext(nextK, lastK) == lastK.high <= nextK.high /\ lastK.low >= nextK.low
\* A plausible slip: an outside bar is not taken as containment.
ContainedInsideOnly(nextK, lastK) == isNextInLast(nextK, lastK)

Contained(nextK, lastK) == isNextInLast(nextK, lastK) \/ isLastInNext(nextK, lastK)

\* A plausible slip: the opening default taken as down.
MergeDirectionDefaultDown(result, dir) ==
    IF dir # 0 THEN dir
    ELSE IF Len(result) > 1
         THEN (IF Last(result).high > result[Len(result) - 1].high THEN 1 ELSE -1)
         ELSE -1

\* The direction a merge uses: inferred when still unknown.
MergeDirection(result, dir) ==
    IF dir # 0 THEN dir
    ELSE IF Len(result) > 1
         THEN (IF Last(result).high > result[Len(result) - 1].high THEN 1 ELSE -1)
         ELSE 1

\* A plausible slip: the up rule (max, max) whatever the direction.
mergeRangeAlwaysUp(lastK, nextK, dir) ==
    [high |-> Max(lastK.high, nextK.high), low |-> Max(lastK.low, nextK.low)]

\* A plausible slip: the merged bar spans both bars (max high, min low).
mergeRangeUnion(lastK, nextK, dir) ==
    [high |-> Max(lastK.high, nextK.high), low |-> Min(lastK.low, nextK.low)]

\* UP: high = max, low = max.  DOWN: high = min, low = min.
mergeRange(lastK, nextK, dir) ==
    IF dir = 1
    THEN [high |-> Max(lastK.high, nextK.high), low |-> Max(lastK.low, nextK.low)]
    ELSE [high |-> Min(lastK.high, nextK.high), low |-> Min(lastK.low, nextK.low)]

\* The merged bar that replaces result[result.length - 1]; n is the code's i.
\* A plausible slip: the merged bar takes the child but keeps its end index.
MergeIntoSpanKept(lastK, nextK, dir, n) ==
    LET r == mergeRange(lastK, nextK, dir)
    IN  [lastK EXCEPT !.high = r.high, !.low = r.low, !.time = nextK.time,
                      !.children = Append(lastK.children, nextK)]

MergeInto(lastK, nextK, dir, n) ==
    LET r == mergeRange(lastK, nextK, dir)
    IN  [lastK EXCEPT !.high = r.high, !.low = r.low, !.time = nextK.time,
                      !.originalEndIndex = n,
                      !.children = Append(lastK.children, nextK)]

\* A plausible slip: a non-contained bar leaves the direction as it was.
NewDirectionKept(lastK, nextK, dir) == dir

\* The direction after a non-contained bar.
NewDirection(lastK, nextK, dir) ==
    IF nextK.high > lastK.high /\ nextK.low > lastK.low THEN 1
    ELSE IF nextK.high < lastK.high /\ nextK.low < lastK.low THEN -1
    ELSE dir

InclusionInit(ks) ==
    [result |-> <<MergedKline(ks[1], 0, 0, <<ks[1]>>)>>, direction |-> 0]

\* One iteration of the loop, on the bar at code index n.
InclusionStep(acc, nextK, n) ==
    LET result == acc.result
        lastK == Last(result)
    IN  IF Contained(nextK, lastK)
        THEN LET dir == MergeDirection(result, acc.direction)
             IN  [result |-> [result EXCEPT ![Len(result)] = MergeInto(lastK, nextK, dir, n)],
                  direction |-> dir]
        ELSE [result |-> Append(result, MergedKline(nextK, n, n, <<nextK>>)),
              direction |-> NewDirection(lastK, nextK, acc.direction)]

\* The for loop from code index n on.  result always holds the first bar at least:
\* the test on it has TLC evaluate acc at every iteration, not all at the end.
RECURSIVE InclusionLoop(_, _, _)
InclusionLoop(acc, ks, n) ==
    IF n >= Len(ks) \/ acc.result = << >> THEN acc
    ELSE InclusionLoop(InclusionStep(acc, ks[n + 1], n), ks, n + 1)

processInclusionStrict(ks) ==
    IF Len(ks) = 0 THEN << >> ELSE InclusionLoop(InclusionInit(ks), ks, 1).result

(***************************************************************************)
(* 2. identifyFractals                                                     *)
(***************************************************************************)
\* The Point of a fractal copies the merged bar's own index and time fields.
\* A plausible slip: a top priced at the bar's low and a bottom at its high.
FractalPointInner(curr, ty) ==
    ChanPoint(curr.originalEndIndex, IF ty = "top" THEN curr.low ELSE curr.high,
              ty, curr.time)

FractalPoint(curr, ty) ==
    ChanPoint(curr.originalEndIndex, IF ty = "top" THEN curr.high ELSE curr.low,
              ty, curr.time)

\* A plausible slip: the bar is compared with the one before it only.
FractalAtOneSided(ks, n) ==
    LET prev == ks[n - 1]
        curr == ks[n]
    IN  IF curr.high > prev.high
        THEN <<FractalPoint(curr, "top")>>
        ELSE IF curr.low < prev.low
        THEN <<FractalPoint(curr, "bottom")>>
        ELSE << >>

\* A plausible slip: the bar is compared with the one after it only.
FractalAtNextOnly(ks, n) ==
    LET curr == ks[n]
        next == ks[n + 1]
    IN  IF curr.high > next.high
        THEN <<FractalPoint(curr, "top")>>
        ELSE IF curr.low < next.low
        THEN <<FractalPoint(curr, "bottom")>>
        ELSE << >>

\* The fractal, if any, at interior position n (1-based) of the merged bars.
FractalAt(ks, n) ==
    LET prev == ks[n - 1]
        curr == ks[n]
        next == ks[n + 1]
    IN  IF curr.high > prev.high /\ curr.high > next.high
        THEN <<FractalPoint(curr, "top")>>
        ELSE IF curr.low < prev.low /\ curr.low < next.low
        THEN <<FractalPoint(curr, "bottom")>>
        ELSE << >>

RECURSIVE FractalLoop(_, _)
FractalLoop(ks, n) ==
    IF n > Len(ks) - 1 THEN << >> ELSE FractalAt(ks, n) \o FractalLoop(ks, n + 1)

identifyFractals(ks) == IF Len(ks) < 3 THEN << >> ELSE FractalLoop(ks, 2)

(***************************************************************************)
(* 3. generateBi                                                           *)
(***************************************************************************)
\* A plausible slip: the stroke tagged by the Point it ends at.
ChanBiTaggedByEnd(s, e) ==
    [start |-> s, end |-> e, type |-> IF e.type = "bottom" THEN "up" ELSE "down"]

ChanBi(s, e) ==
    [start |-> s, end |-> e, type |-> IF s.type = "bottom" THEN "up" ELSE "down"]

\* 3.1, one iteration: acc = [rawPoints, lastPt], curr = fractals[i].
\* A plausible slip: of two consecutive fractals of one type the later is kept.
FilterStepKeepLast(acc, curr) ==
    IF curr.type = acc.lastPt.type
    THEN [rawPoints |-> Append(SubSeq(acc.rawPoints, 1, Len(acc.rawPoints) - 1), curr),
          lastPt |-> curr]
    ELSE [rawPoints |-> Append(acc.rawPoints, curr), lastPt |-> curr]

FilterStep(acc, curr) ==
    IF curr.type = acc.lastPt.type
    THEN IF \/ curr.type = "top" /\ curr.price > acc.lastPt.price
            \/ curr.type = "bottom" /\ curr.price < acc.lastPt.price
         THEN [rawPoints |-> Append(SubSeq(acc.rawPoints, 1, Len(acc.rawPoints) - 1), curr),
               lastPt |-> curr]
         ELSE acc
    ELSE [rawPoints |-> Append(acc.rawPoints, curr), lastPt |-> curr]

RECURSIVE FilterLoop(_, _, _)
FilterLoop(acc, frs, n) ==
    IF n > Len(frs) THEN acc ELSE FilterLoop(FilterStep(acc, frs[n]), frs, n + 1)

\* 3.1: the filtered Point list of a fractal list of length >= 2.
FilterFractals(frs) ==
    FilterLoop([rawPoints |-> <<frs[1]>>, lastPt |-> frs[1]], frs, 2).rawPoints

\* Array.findIndex: the first merged bar with the time, or holding a child with it.
MatchesTime(k, t) == k.time = t \/ \E c \in 1..Len(k.children) : k.children[c].time = t

RECURSIVE FindFrom(_, _, _)
FindFrom(ks, t, n) ==
    IF n > Len(ks) THEN -1
    ELSE IF MatchesTime(ks[n], t) THEN n - 1
    ELSE FindFrom(ks, t, n + 1)

findIndex(ks, t) == FindFrom(ks, t, 1)

kCountOf(ks, start, end) == Abs(findIndex(ks, end.time) - findIndex(ks, start.time))

\* settings.biKCount || 5
biKCountOrDefault(st) == IF st.biKCount = 0 THEN 5 ELSE st.biKCount

\* A plausible slip: the new-stroke threshold one bar too low.
isValidBiLoose(st, kCount) ==
    CASE st.biType = "old" -> kCount >= 4
      [] st.biType = "new" -> kCount >= 2
      [] st.biType = "fractal" -> TRUE
      [] st.biType = "custom" -> kCount >= biKCountOrDefault(st) - 1
      [] OTHER -> FALSE

isValidBi(st, kCount) ==
    CASE st.biType = "old" -> kCount >= 4
      [] st.biType = "new" -> kCount >= 3
      [] st.biType = "fractal" -> TRUE
      [] st.biType = "custom" -> kCount >= biKCountOrDefault(st) - 1
      [] OTHER -> FALSE

\* 3.2: the valid strokes among the adjacent pairs of rawPoints, from pair n on.
RECURSIVE ValidLoop(_, _, _, _)
ValidLoop(raw, ks, st, n) ==
    IF n > Len(raw) - 1 THEN << >>
    ELSE (IF isValidBi(st, kCountOf(ks, raw[n], raw[n + 1]))
          THEN <<ChanBi(raw[n], raw[n + 1])>> ELSE << >>)
         \o ValidLoop(raw, ks, st, n + 1)

\* A plausible slip: on a gap between valid strokes the chain is reset, the stroke
\* before the gap being dropped.
RECURSIVE ContinuityLoopReset(_, _, _)
ContinuityLoopReset(acc, validBi, n) ==
    IF n > Len(validBi) THEN Append(acc.continuousBi, acc.currentBi)
    ELSE IF acc.currentBi.end.time = validBi[n].start.time
    THEN ContinuityLoopReset([continuousBi |-> Append(acc.continuousBi, acc.currentBi),
                              currentBi |-> validBi[n]], validBi, n + 1)
    ELSE ContinuityLoopReset([continuousBi |-> << >>, currentBi |-> validBi[n]],
                             validBi, n + 1)

\* 3.3, the loop: acc = [continuousBi, currentBi]; both branches push and move on.
RECURSIVE ContinuityLoop(_, _, _)
ContinuityLoop(acc, validBi, n) ==
    IF n > Len(validBi) THEN Append(acc.continuousBi, acc.currentBi)
    ELSE IF acc.currentBi.end.time = validBi[n].start.time
    THEN ContinuityLoop([continuousBi |-> Append(acc.continuousBi, acc.currentBi),
                         currentBi |-> validBi[n]], validBi, n + 1)
    ELSE ContinuityLoop([continuousBi |-> Append(acc.continuousBi, acc.currentBi),
                         currentBi |-> validBi[n]], validBi, n + 1)

Continuity(validBi) ==
    IF Len(validBi) = 0 THEN << >>
    ELSE ContinuityLoop([continuousBi |-> << >>, currentBi |-> validBi[1]], validBi, 2)

\* rawPoints as generateBi leaves it (never built for fewer than 2 fractals).
rawPointsOf(frs) == IF Len(frs) < 2 THEN << >> ELSE FilterFractals(frs)

generateBi(frs, ks, st) ==
    IF Len(frs) < 2 THEN << >>
    ELSE LET raw == FilterFractals(frs)
         IN  IF Len(raw) < 2 THEN << >> ELSE Continuity(ValidLoop(raw, ks, st, 1))

(***************************************************************************)
(* 4. generateSegmentsStrict, checkSegmentDestruction                      *)
(***************************************************************************)
\* The element at code index n.
At(s, n) == s[n + 1]

HighOf(b) == Max(b.start.price, b.end.price)
LowOf(b) == Min(b.start.price, b.end.price)

OtherType(ty) == IF ty = "up" THEN "down" ELSE "up"

\* Whether candidate i (code index, i + 3 < length) confirms the destruction.
\* A plausible slip: the features merged by the rule of the segment's own direction.
mergedFeatureOwnRule(ty, x1, x2) == IF ty = "up" THEN Max(x1, x2) ELSE Min(x1, x2)

\* The merged high (or low) of two contained feature elements: an up segment keeps
\* the lower value, a down segment the higher.
mergedFeature(ty, x1, x2) == IF ty = "up" THEN Min(x1, x2) ELSE Max(x1, x2)

Destroys(b, i, ty) ==
    LET candidateBi == At(b, i)
        f1 == At(b, i + 1)
        f2 == At(b, i + 3)
        f1H == HighOf(f1)
        f1L == LowOf(f1)
        f2H == HighOf(f2)
        f2L == LowOf(f2)
        hasInclusion == (f2H <= f1H /\ f2L >= f1L) \/ (f1H <= f2H /\ f1L >= f2L)
        mergedF1H == IF ~hasInclusion THEN f1H ELSE mergedFeature(ty, f1H, f2H)
        mergedF1L == IF ~hasInclusion THEN f1L ELSE mergedFeature(ty, f1L, f2L)
        peakPrice == candidateBi.end.price
    IN  IF candidateBi.type # ty THEN FALSE
        ELSE IF hasInclusion /\ ~(i + 5 < Len(b)) THEN FALSE
        ELSE LET eff == IF hasInclusion THEN At(b, i + 5) ELSE f2
                 effectiveF2H == HighOf(eff)
                 effectiveF2L == LowOf(eff)
                 rebound == At(b, IF hasInclusion THEN i + 4 ELSE i + 2)
             IN  IF ty = "up"
                 THEN effectiveF2H < mergedF1H /\ effectiveF2L < mergedF1L
                      /\ rebound.end.price < peakPrice
                 ELSE effectiveF2H > mergedF1H /\ effectiveF2L > mergedF1L
                      /\ rebound.end.price > peakPrice

\* A plausible slip: the scan stops one candidate early.
RECURSIVE DestructionLoopShort(_, _, _)
DestructionLoopShort(b, i, ty) ==
    IF ~(i < Len(b) - 4) THEN -1
    ELSE IF Destroys(b, i, ty) THEN i
    ELSE DestructionLoopShort(b, i + 1, ty)

RECURSIVE DestructionLoop(_, _, _)
DestructionLoop(b, i, ty) ==
    IF ~(i < Len(b) - 3) THEN -1
    ELSE IF Destroys(b, i, ty) THEN i
    ELSE DestructionLoop(b, i + 1, ty)

checkSegmentDestruction(b, startIndex, ty) == DestructionLoop(b, startIndex, ty)

ChanSeg(s, e, ty, owned) == [start |-> s, end |-> e, type |-> ty, biList |-> owned]

\* A plausible slip: the segment closed in front of the terminating stroke.
ClosedSegmentBefore(b, startBiIndex, potentialEndIndex, ty) ==
    ChanSeg(At(b, startBiIndex).start, At(b, potentialEndIndex).start, ty,
            SubSeq(b, startBiIndex + 1, potentialEndIndex))

\* The segment pushed when a destruction is found at potentialEndIndex.
ClosedSegment(b, startBiIndex, potentialEndIndex, ty) ==
    ChanSeg(At(b, startBiIndex).start, At(b, potentialEndIndex).end, ty,
            SubSeq(b, startBiIndex + 1, potentialEndIndex + 1))

\* A plausible slip: the last segment closed at its first stroke.
OpenSegmentAtStart(b, startBiIndex, ty) ==
    ChanSeg(At(b, startBiIndex).start, At(b, startBiIndex).end, ty,
            SubSeq(b, startBiIndex + 1, startBiIndex + 1))

\* The segment pushed when no destruction is found: it extends to the end.
OpenSegment(b, startBiIndex, ty) ==
    ChanSeg(At(b, startBiIndex).start, Last(b).end, ty,
            SubSeq(b, startBiIndex + 1, Len(b)))

\* A plausible slip: the next segment starts after the terminating stroke.
NextSegStartAfter(potentialEndIndex) == potentialEndIndex + 1

\* Where the next segment starts after a destruction at potentialEndIndex.
NextSegStart(potentialEndIndex) == potentialEndIndex

RECURSIVE SegmentLoop(_, _, _, _)
SegmentLoop(b, startBiIndex, ty, segments) ==
    LET potentialEndIndex == checkSegmentDestruction(b, startBiIndex, ty)
    IN  IF potentialEndIndex = -1
        THEN Append(segments, OpenSegment(b, startBiIndex, ty))
        ELSE SegmentLoop(b, NextSegStart(potentialEndIndex), OtherType(ty),
                         Append(segments, ClosedSegment(b, startBiIndex, potentialEndIndex, ty)))

\* A plausible slip: only the empty stroke list short-circuits.
generateSegmentsLoose(b) ==
    IF Len(b) = 0 THEN << >> ELSE SegmentLoop(b, 0, b[1].type, << >>)

generateSegmentsStrict(b) ==
    IF Len(b) < 3 THEN << >> ELSE SegmentLoop(b, 0, b[1].type, << >>)

(***************************************************************************)
(* 5./6. generatePivotsFromBi, generatePivotsFromSeg                       *)
(***************************************************************************)
Max3(a, b, c) == Max(a, Max(b, c))
Min3(a, b, c) == Min(a, Min(b, c))

\* A plausible slip: a swing that only touches the band counts as overlapping.
OverlapsBandTouching(h, l, zg, zd) == Min(h, zg) >= Max(l, zd)

\* Whether the swing's [l, h] still overlaps the band [zd, zg].
OverlapsBand(h, l, zg, zd) == Min(h, zg) > Max(l, zd)

\* A plausible slip: the base triple is never extended.
ExtendLoopNone(b, j, zg, zd, acc) == acc

\* The extension loop from code index j: acc = [endBiIdx, gg, dd].
RECURSIVE ExtendLoop(_, _, _, _, _)
ExtendLoop(b, j, zg, zd, acc) ==
    IF ~(j < Len(b)) THEN acc
    ELSE LET h == HighOf(At(b, j))
             l == LowOf(At(b, j))
         IN  IF OverlapsBand(h, l, zg, zd)
             THEN ExtendLoop(b, j + 1, zg, zd,
                             [endBiIdx |-> j, gg |-> Max(acc.gg, h), dd |-> Min(acc.dd, l)])
             ELSE acc

\* A plausible slip: a band of zero height accepted.
ValidOverlapLoose(zg, zd) == zg >= zd

\* if (zg > zd): the three swings overlap.
ValidOverlap(zg, zd) == zg > zd

BaseZG(b1, b2, b3) == Min3(HighOf(b1), HighOf(b2), HighOf(b3))
BaseZD(b1, b2, b3) == Max3(LowOf(b1), LowOf(b2), LowOf(b3))

ChanPivot(b, i, zg, zd, ext) ==
    [startBiIndex |-> i, endBiIndex |-> ext.endBiIdx, zg |-> zg, zd |-> zd,
     gg |-> ext.gg, dd |-> ext.dd, direction |-> "neutral",
     startTime |-> At(b, i).start.time, endTime |-> At(b, ext.endBiIdx).end.time,
     level |-> "bi"]

\* A plausible slip: i set past the absorbed range before the loop's own increment.
ResumeIndexSkipping(endBiIdx) == (endBiIdx + 1) + 1

\* i = endBiIdx - 1, then the loop's i += 1: the index of the next triple examined.
ResumeIndex(endBiIdx) == (endBiIdx - 1) + 1

\* The for loop from code index i on, with the pivots pushed so far.
RECURSIVE PivotLoop(_, _, _)
PivotLoop(b, i, pvs) ==
    IF ~(i <= Len(b) - 3) THEN pvs
    ELSE LET b1 == At(b, i)
             b2 == At(b, i + 1)
             b3 == At(b, i + 2)
             zg == BaseZG(b1, b2, b3)
             zd == BaseZD(b1, b2, b3)
             ext == ExtendLoop(b, i + 3, zg, zd,
                               [endBiIdx |-> i + 2,
                                gg |-> Max3(HighOf(b1), HighOf(b2), HighOf(b3)),
                                dd |-> Min3(LowOf(b1), LowOf(b2), LowOf(b3))])
         IN  IF b1.type = b2.type THEN PivotLoop(b, i + 1, pvs)
             ELSE IF ValidOverlap(zg, zd) /\ (Len(pvs) = 0 \/ i > Last(pvs).endBiIndex)
             THEN PivotLoop(b, ResumeIndex(ext.endBiIdx), Append(pvs, ChanPivot(b, i, zg, zd, ext)))
             ELSE PivotLoop(b, i + 1, pvs)

generatePivotsFromBi(b) == IF Len(b) < 3 THEN << >> ELSE PivotLoop(b, 0, << >>)

pseudoBiList(segs) ==
    [n \in 1..Len(segs) |-> [start |-> segs[n].start, end |-> segs[n].end, type |-> segs[n].type]]

generatePivotsFromSeg(segs) ==
    LET rawPivots == generatePivotsFromBi(pseudoBiList(segs))
    IN  [n \in 1..Len(rawPivots) |-> [rawPivots[n] EXCEPT !.level = "seg"]]

(***************************************************************************)
(* 7. analyzeStructure                                                     *)
(***************************************************************************)
\* An entry of the MACD series; a hole (macd[i] undefined) has present = FALSE.
MacdEntry(h) == [present |-> TRUE, hist |-> h]
NoEntry == [present |-> FALSE, hist |-> 0]

\* A plausible slip: the stroke-level pivots preferred over the segment-level ones.
trendOfStrokeFirst(b, bPivots, sPivots) ==
    LET activePivots == IF Len(bPivots) >= 2 THEN bPivots ELSE sPivots
    IN  IF Len(activePivots) >= 2
        THEN LET lastP == activePivots[Len(activePivots)]
                 prevP == activePivots[Len(activePivots) - 1]
             IN  IF lastP.zd > prevP.zg THEN "up"
                 ELSE IF lastP.zg < prevP.zd THEN "down"
                 ELSE "consolidation"
        ELSE IF Len(b) > 0
        THEN (IF Last(b).type = "up" THEN "up" ELSE "down")
        ELSE "consolidation"

trendOf(b, bPivots, sPivots) ==
    LET activePivots == IF Len(sPivots) >= 2 THEN sPivots ELSE bPivots
    IN  IF Len(activePivots) >= 2
        THEN LET lastP == activePivots[Len(activePivots)]
                 prevP == activePivots[Len(activePivots) - 1]
             IN  IF lastP.zd > prevP.zg THEN "up"
                 ELSE IF lastP.zg < prevP.zd THEN "down"
                 ELSE "consolidation"
        ELSE IF Len(b) > 0
        THEN (IF Last(b).type = "up" THEN "up" ELSE "down")
        ELSE "consolidation"

RECURSIVE AreaLoop(_, _, _)
AreaLoop(m, i, endIndex) ==
    IF i > endIndex THEN 0
    ELSE (IF At(m, i).present THEN Abs(At(m, i).hist) ELSE 0) + AreaLoop(m, i + 1, endIndex)

getRangeMACD(m, startIndex, endIndex) ==
    IF startIndex < 0 \/ endIndex >= Len(m) THEN 0 ELSE AreaLoop(m, startIndex, endIndex)

\* getBiMACD and getSegMACD: the force of a swing.
getSwingMACD(m, sw) == getRangeMACD(m, sw.start.index, sw.end.index)

\* A plausible slip: the signal placed at the start of the swing.
BuySellPointAtStart(ty, sw, segLevel) ==
    [type |-> ty, price |-> sw.start.price, time |-> sw.start.time, isSegmentLevel |-> segLevel]

BuySellPoint(ty, sw, segLevel) ==
    [type |-> ty, price |-> sw.end.price, time |-> sw.end.time, isSegmentLevel |-> segLevel]

\* A plausible slip: a force equal to the threshold counts as weaker.
WeakerOrEqual(currForce, prevForce, tenths) == currForce * 10 <= prevForce * tenths

\* currForce < prevForce * (tenths / 10), on integer forces.
Weaker(currForce, prevForce, tenths) == currForce * 10 < prevForce * tenths

\* The 1B/1S test of swings curr = list[i] and prev = list[i - 2].
DivergenceSignal(m, curr, prev, tenths, segLevel) ==
    IF curr.type = "down" /\ curr.end.price < prev.end.price
    THEN (IF Weaker(getSwingMACD(m, curr), getSwingMACD(m, prev), tenths)
          THEN <<BuySellPoint("1B", curr, segLevel)>> ELSE << >>)
    ELSE IF curr.type = "up" /\ curr.end.price > prev.end.price
    THEN (IF Weaker(getSwingMACD(m, curr), getSwingMACD(m, prev), tenths)
          THEN <<BuySellPoint("1S", curr, segLevel)>> ELSE << >>)
    ELSE << >>

\* biPivots.find(p => p.endBiIndex === n): the position of the first such pivot, 0 if none.
RECURSIVE FindPivotFrom(_, _, _)
FindPivotFrom(pvs, n, k) ==
    IF k > Len(pvs) THEN 0
    ELSE IF pvs[k].endBiIndex = n THEN k
    ELSE FindPivotFrom(pvs, n, k + 1)

\* A plausible slip: a retest that comes back to the band's edge still counts.
ThirdSignalsTouching(b, bPivots, i) ==
    LET k == FindPivotFrom(bPivots, i - 2, 1)
        curr == At(b, i)
        breakout == At(b, i - 1)
    IN  IF k = 0 THEN << >>
        ELSE (IF curr.type = "down" /\ breakout.type = "up"
                 /\ breakout.end.price > bPivots[k].zg /\ curr.end.price >= bPivots[k].zg
              THEN <<BuySellPoint("3B", curr, FALSE)>> ELSE << >>)
             \o
             (IF curr.type = "up" /\ breakout.type = "down"
                 /\ breakout.end.price < bPivots[k].zd /\ curr.end.price <= bPivots[k].zd
              THEN <<BuySellPoint("3S", curr, FALSE)>> ELSE << >>)

\* The 3B/3S test of stroke i (code index).
ThirdSignals(b, bPivots, i) ==
    LET k == FindPivotFrom(bPivots, i - 2, 1)
        curr == At(b, i)
        breakout == At(b, i - 1)
    IN  IF k = 0 THEN << >>
        ELSE (IF curr.type = "down" /\ breakout.type = "up"
                 /\ breakout.end.price > bPivots[k].zg /\ curr.end.price > bPivots[k].zg
              THEN <<BuySellPoint("3B", curr, FALSE)>> ELSE << >>)
             \o
             (IF curr.type = "up" /\ breakout.type = "down"
                 /\ breakout.end.price < bPivots[k].zd /\ curr.end.price < bPivots[k].zd
              THEN <<BuySellPoint("3S", curr, FALSE)>> ELSE << >>)

RECURSIVE BiSignalLoop(_, _, _, _)
BiSignalLoop(m, b, bPivots, i) ==
    IF ~(i < Len(b)) THEN << >>
    ELSE DivergenceSignal(m, At(b, i), At(b, i - 2), 9, FALSE)
         \o ThirdSignals(b, bPivots, i)
         \o BiSignalLoop(m, b, bPivots, i + 1)

\* A plausible slip: the segment compared with the one right before it.
RECURSIVE SegSignalLoopAdjacent(_, _, _)
SegSignalLoopAdjacent(m, segs, i) ==
    IF ~(i < Len(segs)) THEN << >>
    ELSE DivergenceSignal(m, At(segs, i), At(segs, i - 1), 8, TRUE)
         \o SegSignalLoopAdjacent(m, segs, i + 1)

RECURSIVE SegSignalLoop(_, _, _)
SegSignalLoop(m, segs, i) ==
    IF ~(i < Len(segs)) THEN << >>
    ELSE DivergenceSignal(m, At(segs, i), At(segs, i - 2), 8, TRUE)
         \o SegSignalLoop(m, segs, i + 1)

\* A plausible slip: the signal list kept outside analyzeStructure, so that a call
\* appends to what the call before left in it.
buySellPointsCarried(m, b, segs, bPivots) ==
    buySellPoints \o BiSignalLoop(m, b, bPivots, 2) \o SegSignalLoop(m, segs, 2)

buySellPointsOf(m, b, segs, bPivots) ==
    BiSignalLoop(m, b, bPivots, 2) \o SegSignalLoop(m, segs, 2)

\* The recency window: 10 nominal bar intervals.
RecencyWindow == 3600 * 1000 * 10

Inactive == [isDivergent |-> FALSE, type |-> "null"]

latestDivergence(signals, ks) ==
    IF Len(signals) = 0 THEN Inactive
    ELSE LET lastSignal == Last(signals)
         IN  IF /\ lastSignal.type \in {"1B", "1S"}
                /\ Len(ks) > 0
                /\ Abs(lastSignal.time - Last(ks).time) < RecencyWindow
             THEN [isDivergent |-> TRUE,
                   type |-> IF lastSignal.type = "1B" THEN "bottom" ELSE "top"]
             ELSE Inactive

analyzeStructure(b, segs, bPivots, sPivots, m, ks) ==
    LET signals == buySellPointsOf(m, b, segs, bPivots)
    IN  [buySellPoints |-> signals,
         divergence |-> latestDivergence(signals, ks),
         trend |-> trendOf(b, bPivots, sPivots)]

(***************************************************************************)
(* Values of the variables a specification does not use.                   *)
(***************************************************************************)
DefaultSettings == [biType |-> "fractal", biKCount |-> 0]

NoInput == hasKlines = TRUE /\ klines = << >> /\ settings = DefaultSettings /\ macd = << >>
NoInclusion == idx = 0 /\ direction = 0 /\ mergedKlines = << >>
NoBi == fractals = << >> /\ rawPoints = << >> /\ biList = << >>
NoSeg == segList = << >>
NoPivots == biPivots = << >> /\ segPivots = << >> /\ pivots = << >>
NoSignals == buySellPoints = << >> /\ divergence = Inactive /\ trend = "consolidation"
NoCalls == returned = << >>

(***************************************************************************)
(* SpecIncl: processInclusionStrict run bar by bar on every bar sequence   *)
(* of at most MaxBars bars with low <= high, then identifyFractals.        *)
(***************************************************************************)
Shapes == {hl \in (1..MaxPrice) \X (1..MaxPrice) : hl[2] <= hl[1]}

\* The bar sequences of length n: bar k has high/low f[k], one bar per hour.
BarSeqs(n) ==
    {[k \in 1..n |-> Kline(BarTime(k - 1, HourMs), f[k][1], f[k][2])] : f \in [1..n -> Shapes]}

InitIncl ==
    /\ pc = "incl"
    /\ hasKlines = TRUE
    /\ \E n \in 0..MaxBars : klines \in BarSeqs(n)
    /\ settings = DefaultSettings
    /\ macd = << >>
    /\ idx = 1
    /\ direction = 0
    /\ mergedKlines = IF Len(klines) = 0 THEN << >> ELSE InclusionInit(klines).result
    /\ fractals = << >> /\ rawPoints = << >> /\ biList = << >>
    /\ NoSeg /\ NoPivots /\ NoSignals /\ NoCalls

\* One loop iteration of processInclusionStrict on klines[idx].
InclusionIter ==
    LET acc == InclusionStep([result |-> mergedKlines, direction |-> direction],
                             At(klines, idx), idx)
    IN  /\ mergedKlines' = acc.result
        /\ direction' = acc.direction
        /\ idx' = idx + 1
        /\ UNCHANGED <<pc, returned, hasKlines, klines, settings, macd, fractals, rawPoints, biList,
                       segList, biPivots, segPivots, pivots,
                       buySellPoints, divergence, trend>>

\* The iteration takes the inclusion branch.
MergeBar ==
    /\ pc = "incl"
    /\ idx < Len(klines)
    /\ Contained(At(klines, idx), Last(mergedKlines))
    /\ InclusionIter

\* The iteration takes the no-inclusion branch.
NewBar ==
    /\ pc = "incl"
    /\ idx < Len(klines)
    /\ ~Contained(At(klines, idx), Last(mergedKlines))
    /\ InclusionIter

\* The loop is over: identifyFractals on the merged bars.
IdentifyFractals ==
    /\ pc = "incl"
    /\ ~(idx < Len(klines))
    /\ fractals' = identifyFractals(mergedKlines)
    /\ pc' = "done"
    /\ UNCHANGED <<returned, hasKlines, klines, settings, macd, idx, direction, mergedKlines,
                   rawPoints, biList, segList, biPivots, segPivots,
                   pivots, buySellPoints, divergence, trend>>

NextIncl == MergeBar \/ NewBar \/ IdentifyFractals

SpecIncl == InitIncl /\ [][NextIncl]_vars

(***************************************************************************)
(* Claims checked under SpecIncl.                                          *)
(***************************************************************************)
\* C2: no two adjacent merged bars are in containment (neither [low, high] range
\* contains the other, ties included), after every iteration and so on the output.
C2_NoAdjacentContainment ==
    \A k \in 1..(Len(mergedKlines) - 1) :
        ~Contained(mergedKlines[k + 1], mergedKlines[k])

\* C2 witness: the output holds a merged bar with a predecessor whose high or low
\* changed by a merge after it was compared with that predecessor.
C2_Witness ==
    /\ pc = "done"
    /\ \E k \in 2..Len(mergedKlines) :
          /\ Len(mergedKlines[k].children) >= 2
          /\ \/ mergedKlines[k].high # mergedKlines[k].children[1].high
             \/ mergedKlines[k].low # mergedKlines[k].children[1].low

\* The next bar is an outside bar of the current merged bar.
OutsideBar(nextK, lastK) == nextK.high > lastK.high /\ nextK.low < lastK.low

\* C8: an iteration on an outside bar (strictly higher high and strictly lower low
\* than the current merged bar) starts a new merged bar and leaves direction unchanged.
C8_OutsideBarStartsNewBar ==
    [][(pc = "incl" /\ idx < Len(klines) /\ OutsideBar(At(klines, idx), Last(mergedKlines)))
        => (Len(mergedKlines') = Len(mergedKlines) + 1 /\ direction' = direction)]_vars

\* C10: every Point of identifyFractals has the time of the source bar at
\* Point.index, and its price is that bar's high (top) or low (bottom).
C10_PointFromExtremeBar ==
    pc = "done" =>
        \A n \in 1..Len(fractals) :
            LET p == fractals[n]
                bar == At(klines, p.index)
            IN  /\ bar.time = p.time
                /\ p.type = "top" => bar.high = p.price
                /\ p.type = "bottom" => bar.low = p.price

(***************************************************************************)
(* calculateChanLun, stage by stage.                                       *)
(***************************************************************************)
MinKlines == 10

\* A plausible slip: the minimum taken one bar too low.
TooFewKlinesOffByOne(present, ks) == ~present \/ Len(ks) < MinKlines - 1

\* !klines || klines.length < 10
TooFewKlines(present, ks) == ~present \/ Len(ks) < MinKlines

emptyResult ==
    [klines |-> << >>, fractals |-> << >>, biList |-> << >>, segList |-> << >>,
     pivots |-> << >>, buySellPoints |-> << >>, divergence |-> Inactive,
     trend |-> "consolidation"]

\* An entry of the MACD series by shape, for bar j (1-based) of nb bars.  The series
\* is calculateMACD's result, an input of analyzeStructure.
MacdShape(shape, nb) ==
    CASE shape = "flat"  -> [j \in 1..nb |-> MacdEntry(1)]
      [] shape = "decay" -> [j \in 1..nb |-> MacdEntry(0 - (nb + 1 - j))]
      [] shape = "rise"  -> [j \in 1..nb |-> MacdEntry(j - 1)]
      [] shape = "front" -> [j \in 1..nb |-> MacdEntry(IF j <= 3 THEN 10 * nb ELSE nb + 1 - j)]
      [] shape = "short" -> [j \in 1..(IF nb > 2 THEN nb - 2 ELSE 0) |-> MacdEntry(0 - (nb + 1 - j))]
      [] shape = "holes" -> [j \in 1..nb |-> IF j % 3 = 2 THEN NoEntry ELSE MacdEntry(nb + 1 - j)]
      [] shape = "late"  -> [j \in 1..nb |-> IF j <= 2 THEN NoEntry ELSE MacdEntry(nb + 1 - j)]
      [] shape = "none"  -> << >>

\* The MACD shapes a specification draws from.
MacdShapes == {"flat", "decay", "rise", "front"}

ReturnEmpty ==
    /\ pc = "start"
    /\ TooFewKlines(hasKlines, klines)
    /\ mergedKlines' = emptyResult.klines
    /\ fractals' = emptyResult.fractals
    /\ biList' = emptyResult.biList
    /\ segList' = emptyResult.segList
    /\ pivots' = emptyResult.pivots
    /\ buySellPoints' = emptyResult.buySellPoints
    /\ divergence' = emptyResult.divergence
    /\ trend' = emptyResult.trend
    /\ returned' = Append(returned, emptyResult)
    /\ pc' = "done"
    /\ UNCHANGED <<hasKlines, klines, settings, macd, idx, direction, rawPoints,
                   biPivots, segPivots>>

ProcessInclusion ==
    /\ pc = "start"
    /\ ~TooFewKlines(hasKlines, klines)
    /\ mergedKlines' = processInclusionStrict(klines)
    /\ pc' = "fractals"
    /\ UNCHANGED <<returned, hasKlines, klines, settings, macd, idx, direction, fractals, rawPoints,
                   biList, segList, biPivots, segPivots, pivots,
                   buySellPoints, divergence, trend>>

Fractals ==
    /\ pc = "fractals"
    /\ fractals' = identifyFractals(mergedKlines)
    /\ pc' = "bi"
    /\ UNCHANGED <<returned, hasKlines, klines, settings, macd, idx, direction, mergedKlines, rawPoints,
                   biList, segList, biPivots, segPivots, pivots,
                   buySellPoints, divergence, trend>>

GenerateBi ==
    /\ pc = "bi"
    /\ rawPoints' = rawPointsOf(fractals)
    /\ biList' = generateBi(fractals, mergedKlines, settings)
    /\ pc' = "seg"
    /\ UNCHANGED <<returned, hasKlines, klines, settings, macd, idx, direction, mergedKlines, fractals,
                   segList, biPivots, segPivots, pivots,
                   buySellPoints, divergence, trend>>

GenerateSegments ==
    /\ pc = "seg"
    /\ segList' = generateSegmentsStrict(biList)
    /\ pc' = "bipivots"
    /\ UNCHANGED <<returned, hasKlines, klines, settings, macd, idx, direction, mergedKlines, fractals,
                   rawPoints, biList, biPivots, segPivots, pivots,
                   buySellPoints, divergence, trend>>

GeneratePivotsFromBi ==
    /\ pc = "bipivots"
    /\ biPivots' = generatePivotsFromBi(biList)
    /\ pc' = "segpivots"
    /\ UNCHANGED <<returned, hasKlines, klines, settings, macd, idx, direction, mergedKlines, fractals,
                   rawPoints, biList, segList, segPivots, pivots,
                   buySellPoints, divergence, trend>>

\* Array.sort by startTime (stable): insertion of p into a sorted list.
RECURSIVE InsertByStartTime(_, _)
InsertByStartTime(sorted, p) ==
    IF Len(sorted) = 0 THEN <<p>>
    ELSE IF Last(sorted).startTime <= p.startTime THEN Append(sorted, p)
    ELSE Append(InsertByStartTime(SubSeq(sorted, 1, Len(sorted) - 1), p), Last(sorted))

RECURSIVE SortByStartTime(_)
SortByStartTime(ps) ==
    IF Len(ps) = 0 THEN << >>
    ELSE InsertByStartTime(SortByStartTime(SubSeq(ps, 1, Len(ps) - 1)), Last(ps))

\* A plausible slip: the two lists are joined and left in that order.
allPivotsJoined(bPivots, sPivots) == bPivots \o sPivots

\* allPivots = [...biPivots, ...segPivots].sort((a, b) => a.startTime - b.startTime)
allPivots(bPivots, sPivots) == SortByStartTime(bPivots \o sPivots)

GeneratePivotsFromSeg ==
    /\ pc = "segpivots"
    /\ segPivots' = generatePivotsFromSeg(segList)
    /\ pivots' = allPivots(biPivots, generatePivotsFromSeg(segList))
    /\ pc' = "analyze"
    /\ UNCHANGED <<returned, hasKlines, klines, settings, macd, idx, direction, mergedKlines, fractals,
                   rawPoints, biList, segList, biPivots,
                   buySellPoints, divergence, trend>>

\* The object calculateChanLun returns.
ChanLunFeatures(mk, fr, b, segs, pvs, analysis) ==
    [klines |-> mk, fractals |-> fr, biList |-> b, segList |-> segs, pivots |-> pvs,
     buySellPoints |-> analysis.buySellPoints, divergence |-> analysis.divergence,
     trend |-> analysis.trend]

\* calculateMACD's series is drawn by shape, then analyzeStructure runs on it and the
\* result is returned.  calculateMACD is a function of the bars and the settings: a
\* later call on the same input gets the series of the first.
AnalyzeStructure ==
    /\ pc = "analyze"
    /\ \E shape \in MacdShapes :
          LET m == MacdShape(shape, Len(klines))
              analysis == analyzeStructure(biList, segList, biPivots, segPivots, m, klines)
          IN  /\ returned = << >> \/ m = macd
              /\ macd' = m
              /\ buySellPoints' = analysis.buySellPoints
              /\ divergence' = analysis.divergence
              /\ trend' = analysis.trend
              /\ returned' = Append(returned,
                                    ChanLunFeatures(mergedKlines, fractals, biList, segList,
                                                    pivots, analysis))
    /\ pc' = "done"
    /\ UNCHANGED <<hasKlines, klines, settings, idx, direction, mergedKlines, fractals,
                   rawPoints, biList, segList, biPivots, segPivots, pivots>>

NextChan ==
    ReturnEmpty \/ ProcessInclusion \/ Fractals \/ GenerateBi \/ GenerateSegments
        \/ GeneratePivotsFromBi \/ GeneratePivotsFromSeg \/ AnalyzeStructure

(***************************************************************************)
(* Zig-zag bar sequences: zero-range bars that fall or rise by one price   *)
(* unit per bar towards each turning point, so that turning point k is the *)
(* bar at index PointBar(gaps, k) and every swing moves by a multiple of   *)
(* AmpUnit.  No two adjacent bars are in containment.                      *)
(***************************************************************************)
BasePrice == 100  \* the price of the first turning point
AmpUnit == 3      \* price units per amplitude step: at least the widest gap

FlipPoint(ty) == IF ty = "top" THEN "bottom" ELSE "top"

\* The type of turning point k (1-based) when the first has type ty.
PointType(ty, k) == IF k % 2 = 1 THEN ty ELSE FlipPoint(ty)

\* The price of turning point k: swing j moves by amps[j] * AmpUnit.
RECURSIVE PointPrice(_, _, _)
PointPrice(ty, amps, k) ==
    IF k = 1 THEN BasePrice
    ELSE PointPrice(ty, amps, k - 1)
         + (IF PointType(ty, k - 1) = "bottom" THEN amps[k - 1] * AmpUnit
            ELSE 0 - amps[k - 1] * AmpUnit)

\* The bar index of turning point k: gaps[k] bars after the previous one (bar 0 for k = 1).
RECURSIVE PointBar(_, _)
PointBar(gaps, k) == IF k = 0 THEN 0 ELSE PointBar(gaps, k - 1) + gaps[k]

\* The turning point that bar j (code index) leads to: the first with PointBar >= j,
\* n + 1 for the bar after the last turning point.
RECURSIVE TargetOf(_, _, _, _)
TargetOf(gaps, n, j, k) ==
    IF k > n THEN n + 1
    ELSE IF PointBar(gaps, k) >= j THEN k
    ELSE TargetOf(gaps, n, j, k + 1)

\* The price of bar j: one unit per bar away from the turning point it leads to.
BarPrice(ty, amps, gaps, n, j) ==
    LET k == TargetOf(gaps, n, j, 1)
    IN  IF n = 0 THEN BasePrice + j
        ELSE IF k = n + 1
        THEN PointPrice(ty, amps, n) + (IF PointType(ty, n) = "top" THEN -1 ELSE 1)
        ELSE PointPrice(ty, amps, k)
             + (IF PointType(ty, k) = "top" THEN 0 - (PointBar(gaps, k) - j)
                ELSE PointBar(gaps, k) - j)

\* The bars of the zig-zag with n turning points: one bar after the last one.
ZigZagBars(ty, amps, gaps, n, interval) ==
    [j \in 1..(PointBar(gaps, n) + 2) |->
        Kline(BarTime(j - 1, interval), BarPrice(ty, amps, gaps, n, j - 1),
              BarPrice(ty, amps, gaps, n, j - 1))]

\* The state at the call of calculateChanLun.
CallWith(present, ks, st) ==
    /\ pc = "start"
    /\ hasKlines = present
    /\ klines = ks
    /\ settings = st
    /\ macd = << >>
    /\ NoInclusion
    /\ NoBi /\ NoSeg /\ NoPivots /\ NoSignals /\ NoCalls

BarIntervals == {HourMs, 4 * HourMs}

(***************************************************************************)
(* SpecLong: long zig-zags of adjacent turning points under the fractal    *)
(* stroke mode (every pair of fractals is a stroke).                       *)
(***************************************************************************)
MaxLongPoints == 13  \* most turning points of a long zig-zag

Amps == {1, 2}  \* the swing amplitudes of a zig-zag, in AmpUnit

InitLong ==
    \E n \in 0..MaxLongPoints :
        \E amps \in [1..(IF n = 0 THEN 0 ELSE n - 1) -> Amps] :
            \E ty \in {"bottom", "top"} :
                CallWith(TRUE, ZigZagBars(ty, amps, [k \in 1..n |-> 1], n, HourMs),
                         [biType |-> "fractal", biKCount |-> 0])

SpecLong == InitLong /\ [][NextChan]_vars

(***************************************************************************)
(* Claims checked under SpecLong.                                          *)
(***************************************************************************)
\* C6: the returned signal list is time-ordered: consecutive entries of
\* buySellPoints have non-decreasing times, stroke- and segment-level together.
C6_SignalsTimeOrdered ==
    pc = "done" =>
        \A k \in 1..(Len(buySellPoints) - 1) :
            buySellPoints[k].time <= buySellPoints[k + 1].time

DivergenceTypeOf(signal) == IF signal.type = "1B" THEN "bottom" ELSE "top"

\* C7: divergence is active exactly when a 1B/1S signal exists and the one with the
\* latest timestamp lies within the recency window of the last bar's time; it is
\* then 'bottom' for a 1B and 'top' for a 1S.
C7_ActiveDivergence ==
    pc = "done" =>
        LET firsts == {k \in 1..Len(buySellPoints) : buySellPoints[k].type \in {"1B", "1S"}}
            recent == {k \in firsts : \A j \in firsts : buySellPoints[j].time <= buySellPoints[k].time}
        IN  IF firsts = {} THEN ~divergence.isDivergent
            ELSE LET within == \E k \in recent :
                                   Abs(buySellPoints[k].time - Last(klines).time) < RecencyWindow
                 IN  /\ divergence.isDivergent = within
                     /\ within => \E k \in recent :
                                      divergence.type = DivergenceTypeOf(buySellPoints[k])

(***************************************************************************)
(* SpecChan: calculateChanLun on a missing bar array and on zig-zags whose *)
(* turning points lie one or three bars apart, under every stroke mode.    *)
(***************************************************************************)
MaxChanPoints == 5  \* most turning points of a zig-zag of SpecChan

Gaps == {1, 3}      \* bars from one turning point to the next

StrokeSettings ==
    {[biType |-> "old", biKCount |-> 0], [biType |-> "new", biKCount |-> 0],
     [biType |-> "fractal", biKCount |-> 0], [biType |-> "custom", biKCount |-> 3],
     [biType |-> "custom", biKCount |-> 0]}

InitChan ==
    \E st \in StrokeSettings :
        \/ CallWith(FALSE, << >>, st)
        \/ \E n \in 0..MaxChanPoints :
               \E amps \in [1..(IF n = 0 THEN 0 ELSE n - 1) -> Amps], gaps \in [1..n -> Gaps] :
                   \E ty \in {"bottom", "top"}, interval \in BarIntervals :
                       CallWith(TRUE, ZigZagBars(ty, amps, gaps, n, interval), st)

SpecChan == InitChan /\ [][NextChan]_vars

(***************************************************************************)
(* Claims checked under SpecChan.                                          *)
(***************************************************************************)
\* C5: calculateChanLun called with a missing bar array or with fewer than 10 bars
\* returns the canonical empty result (no merged bars, fractals, strokes, segments,
\* pivots or signals, divergence inactive, trend consolidation), and no stage has run.
C5_EmptyResultBelowMinimum ==
    (pc = "done" /\ (~hasKlines \/ Len(klines) < 10)) =>
        /\ mergedKlines = << >> /\ fractals = << >> /\ biList = << >>
        /\ segList = << >> /\ pivots = << >> /\ buySellPoints = << >>
        /\ ~divergence.isDivergent
        /\ trend = "consolidation"
        /\ rawPoints = << >> /\ biPivots = << >> /\ segPivots = << >> /\ macd = << >>

\* A call with exactly nine bars has returned.
C5_Witness == pc = "done" /\ hasKlines /\ Len(klines) = 9 /\ trend = "consolidation"

\* The stroke (1-based position in biList) a stroke-level signal was emitted for.
StrokeOfSignal(signal) ==
    {i \in 3..Len(biList) : biList[i].end.time = signal.time}

\* C9: every stroke-level 1B/1S signal belongs to strokes i and i-2 of equal
\* direction: a 1B to two down strokes with stroke i ending lower, a 1S to two up
\* strokes with stroke i ending higher, and force(i) < 90% of force(i-2).
C9_FirstTypeFromEqualDirection ==
    pc = "done" =>
        \A s \in 1..Len(buySellPoints) :
            LET signal == buySellPoints[s]
            IN  (~signal.isSegmentLevel /\ signal.type \in {"1B", "1S"}) =>
                    \E i \in StrokeOfSignal(signal) :
                        /\ biList[i].type = biList[i - 2].type
                        /\ biList[i].type = (IF signal.type = "1B" THEN "down" ELSE "up")
                        /\ IF signal.type = "1B"
                           THEN biList[i].end.price < biList[i - 2].end.price
                           ELSE biList[i].end.price > biList[i - 2].end.price
                        /\ getSwingMACD(macd, biList[i]) * 10 < getSwingMACD(macd, biList[i - 2]) * 9

\* C1: for a stroke list of length >= 3 the segments' owned stroke lists, taken in
\* order, are the stroke list itself: every stroke belongs to exactly one segment.
RECURSIVE OwnedStrokes(_)
OwnedStrokes(segs) ==
    IF Len(segs) = 0 THEN << >>
    ELSE OwnedStrokes(SubSeq(segs, 1, Len(segs) - 1)) \o Last(segs).biList

C1_SegmentsPartitionStrokes ==
    (pc \in {"bipivots", "segpivots", "analyze", "done"} /\ Len(biList) >= 3) =>
        OwnedStrokes(segList) = biList

(***************************************************************************)
(* SpecBi: generateBi on arbitrary fractal lists, consecutive fractals of  *)
(* one type included, under every stroke mode.                             *)
(***************************************************************************)
MaxFractals == 3  \* longest fractal list given to generateBi

\* Single-bar merged bars 0..nb-1; of these generateBi reads the times only.
PlainMerged(nb, interval) ==
    [j \in 1..nb |->
        MergedKline(Kline(BarTime(j - 1, interval), BasePrice, BasePrice), j - 1, j - 1,
                    <<Kline(BarTime(j - 1, interval), BasePrice, BasePrice)>>)]

InitBi ==
    \E n \in 0..MaxFractals, st \in StrokeSettings :
        \E types \in [1..n -> {"top", "bottom"}], prices \in [1..n -> 1..MaxPrice],
           gaps \in [1..n -> Gaps] :
            /\ pc = "bi"
            /\ hasKlines = TRUE
            /\ klines = [j \in 1..(PointBar(gaps, n) + 2) |->
                            Kline(BarTime(j - 1, HourMs), BasePrice, BasePrice)]
            /\ settings = st
            /\ macd = << >>
            /\ idx = 0 /\ direction = 0
            /\ mergedKlines = PlainMerged(PointBar(gaps, n) + 2, HourMs)
            /\ fractals = [k \in 1..n |->
                              ChanPoint(PointBar(gaps, k), prices[k], types[k],
                                        BarTime(PointBar(gaps, k), HourMs))]
            /\ rawPoints = << >> /\ biList = << >>
            /\ NoSeg /\ NoPivots /\ NoSignals /\ NoCalls

SpecBi == InitBi /\ [][GenerateBi]_vars

\* The run of equal-typed consecutive fractals that fractal k belongs to.
RunOf(frs, k) == 1 + Cardinality({j \in 2..k : frs[j].type # frs[j - 1].type})

\* C3: the filtered Point list strictly alternates top/bottom, and of consecutive
\* fractals of one type only the most extreme (highest top, lowest bottom) is kept:
\* rawPoints holds one member of each run, and none of the run is more extreme.
C3_AlternationFilter ==
    (pc = "seg" /\ Len(fractals) >= 2) =>
        /\ \A r \in 1..(Len(rawPoints) - 1) : rawPoints[r].type # rawPoints[r + 1].type
        /\ Len(rawPoints) = RunOf(fractals, Len(fractals))
        /\ \A r \in 1..Len(rawPoints) :
               /\ \E k \in 1..Len(fractals) : RunOf(fractals, k) = r /\ fractals[k] = rawPoints[r]
               /\ \A k \in 1..Len(fractals) :
                      RunOf(fractals, k) = r =>
                          IF rawPoints[r].type = "top"
                          THEN fractals[k].price <= rawPoints[r].price
                          ELSE fractals[k].price >= rawPoints[r].price

\* Two consecutive fractals of one type were filtered, the later being kept, and the
\* filtered list still has points of both types.
C3_Witness ==
    /\ pc = "seg"
    /\ Len(rawPoints) = 2
    /\ Len(fractals) = 3
    /\ fractals[1].type = fractals[2].type
    /\ rawPoints[1] = fractals[2]

(***************************************************************************)
(* SpecPivot: the pivot stages on arbitrary swing lists, given as the      *)
(* stroke list or as the segment list.                                     *)
(***************************************************************************)
MaxSwings == 4  \* longest swing list given to the pivot stages

\* Swing k of a list, from price s to price e, on bars of its own.
Swing(k, s, e) ==
    ChanBi(ChanPoint(2 * (k - 1), s, IF e > s THEN "bottom" ELSE "top",
                     BarTime(2 * (k - 1), HourMs)),
           ChanPoint(2 * k - 1, e, IF e > s THEN "top" ELSE "bottom",
                     BarTime(2 * k - 1, HourMs)))

InitPivot ==
    \E n \in 0..MaxSwings, level \in {"bi", "seg"} :
        \E from \in [1..n -> 1..MaxPrice], to \in [1..n -> 1..MaxPrice] :
            LET swings == [k \in 1..n |-> Swing(k, from[k], to[k])]
            IN  /\ \A k \in 1..n : from[k] # to[k]
                /\ pc = "bipivots"
                /\ NoInput /\ NoInclusion /\ NoPivots /\ NoSignals /\ NoCalls
                /\ fractals = << >> /\ rawPoints = << >>
                /\ biList = (IF level = "bi" THEN swings ELSE << >>)
                /\ segList = (IF level = "seg"
                              THEN [k \in 1..n |-> ChanSeg(swings[k].start, swings[k].end,
                                                           swings[k].type, <<swings[k]>>)]
                              ELSE << >>)

NextPivot == GeneratePivotsFromBi \/ GeneratePivotsFromSeg

SpecPivot == InitPivot /\ [][NextPivot]_vars

ValidPivot(p) == p.zg > p.zd /\ p.gg >= p.zg /\ p.dd <= p.zd

\* C4: every pivot emitted at stroke level or at segment level has zg > zd,
\* gg >= zg and dd <= zd, extended or not.
C4_PivotValidity ==
    /\ \A k \in 1..Len(biPivots) : ValidPivot(biPivots[k])
    /\ \A k \in 1..Len(segPivots) : ValidPivot(segPivots[k])
    /\ \A k \in 1..Len(pivots) : ValidPivot(pivots[k])

\* A segment-level pivot extended by a fourth swing that widened its outer band.
C4_Witness ==
    /\ pc = "analyze"
    /\ \E k \in 1..Len(segPivots) :
           /\ segPivots[k].endBiIndex - segPivots[k].startBiIndex = 3
           /\ segPivots[k].gg > segPivots[k].zg
           /\ segPivots[k].level = "seg"

(***************************************************************************)
(* Claims on the stroke validity and chaining of generateBi, under SpecBi. *)
(***************************************************************************)
\* The position in mergedKlines of the merged bar a Point was taken from.
MergedPos(p) == CHOOSE j \in 1..Len(mergedKlines) : mergedKlines[j].originalEndIndex = p.index

\* The merged bars strictly between the bars of rawPoints[r] and rawPoints[r + 1].
Intervening(r) == Abs(MergedPos(rawPoints[r + 1]) - MergedPos(rawPoints[r])) - 1

\* The pair rawPoints[r], rawPoints[r + 1] is a stroke of the returned list.
Accepted(r) ==
    \E k \in 1..Len(biList) :
        biList[k].start = rawPoints[r] /\ biList[k].end = rawPoints[r + 1]

\* The configured bar count of the custom mode, 5 when it is 0.
ConfiguredCount == IF settings.biKCount = 0 THEN 5 ELSE settings.biKCount

\* C11 as stated: a pair is accepted iff the count of intervening merged bars is
\* >= 4 (old), >= 3 (new), anything (fractal), >= configured count - 1 (custom).
C11_ValidityByInterveningBars ==
    pc = "seg" =>
        \A r \in 1..(Len(rawPoints) - 1) :
            Accepted(r) <=>
                CASE settings.biType = "old" -> Intervening(r) >= 4
                  [] settings.biType = "new" -> Intervening(r) >= 3
                  [] settings.biType = "fractal" -> TRUE
                  [] settings.biType = "custom" -> Intervening(r) >= ConfiguredCount - 1

\* The distance between the merged bars of the pair meets the mode threshold.
MeetsThreshold(r) ==
    CASE settings.biType = "old" -> Intervening(r) + 1 >= 4
      [] settings.biType = "new" -> Intervening(r) + 1 >= 3
      [] settings.biType = "fractal" -> TRUE
      [] settings.biType = "custom" -> Intervening(r) + 1 >= ConfiguredCount - 1

\* C11 amended: the thresholds apply to the distance between the two fractals'
\* merged bars, which is the count of intervening bars plus one: a pair is accepted
\* iff that distance is >= 4 (old), >= 3 (new), anything (fractal), >= configured
\* count - 1 (custom).
C11_ValidityByBarDistance ==
    pc = "seg" => \A r \in 1..(Len(rawPoints) - 1) : Accepted(r) <=> MeetsThreshold(r)

\* An old-mode pair with exactly three intervening merged bars was accepted.
C11_Witness ==
    /\ pc = "seg"
    /\ settings.biType = "old"
    /\ \E r \in 1..(Len(rawPoints) - 1) : Intervening(r) = 3 /\ Accepted(r)

\* The adjacent pair of rawPoints that stroke k of the returned list joins (0 if none).
PairOf(k) ==
    IF \E r \in 1..(Len(rawPoints) - 1) :
           biList[k].start = rawPoints[r] /\ biList[k].end = rawPoints[r + 1]
    THEN CHOOSE r \in 1..(Len(rawPoints) - 1) :
             biList[k].start = rawPoints[r] /\ biList[k].end = rawPoints[r + 1]
    ELSE 0

MaxSegStrokes == 7  \* most strokes of a chain before one is left out

SegAmps == {1, 2, 3}

\* Turning point k of the zig-zag, on bar k.
ZigZagPoint(ty, amps, k) ==
    ChanPoint(k, PointPrice(ty, amps, k), PointType(ty, k), BarTime(k, HourMs))

\* The strokes between the adjacent turning points, stroke number drop left out.
ZigZagStrokes(ty, amps, n, drop) ==
    LET whole == [k \in 1..n |-> ChanBi(ZigZagPoint(ty, amps, k), ZigZagPoint(ty, amps, k + 1))]
    IN  IF drop = 0 THEN whole
        ELSE SubSeq(whole, 1, drop - 1) \o SubSeq(whole, drop + 1, n)

InitSeg ==
    \E n \in 0..MaxSegStrokes, ty \in {"bottom", "top"} :
        \E amps \in [1..n -> SegAmps], drop \in 0..n :
            /\ pc = "seg"
            /\ NoInput /\ NoInclusion /\ NoSeg /\ NoPivots /\ NoSignals /\ NoCalls
            /\ fractals = << >> /\ rawPoints = << >>
            /\ biList = ZigZagStrokes(ty, amps, n, drop)

NextSeg == GenerateSegments \/ GeneratePivotsFromBi \/ GeneratePivotsFromSeg

SpecSeg == InitSeg /\ [][NextSeg]_vars

(***************************************************************************)
(* Claims on the segments, under SpecSeg.                                  *)
(***************************************************************************)
\* The code index in biList of the first stroke segment k owns.
SegStartIndex(k) == (CHOOSE i \in 1..Len(biList) : biList[i] = segList[k].biList[1]) - 1

\* The code index in biList of the last stroke segment k owns.
SegEndIndex(k) == SegStartIndex(k) + Len(segList[k].biList) - 1

\* Feature elements 1 and 2 of candidate i (strokes i+1 and i+3) are in containment.
FeaturesContained(i) ==
    LET f1 == At(biList, i + 1)
        f2 == At(biList, i + 3)
    IN  \/ HighOf(f2) <= HighOf(f1) /\ LowOf(f2) >= LowOf(f1)
        \/ HighOf(f1) <= HighOf(f2) /\ LowOf(f1) >= LowOf(f2)

\* Candidate i qualifies as the end of a segment of direction ty, as C13 states it.
Qualifies(i, ty) ==
    /\ i + 3 < Len(biList)
    /\ At(biList, i).type = ty
    /\ IF FeaturesContained(i)
       THEN /\ i + 5 < Len(biList)
            /\ LET f1 == At(biList, i + 1)
                   f2 == At(biList, i + 3)
                   f3 == At(biList, i + 5)
                   mH == IF ty = "up" THEN Min(HighOf(f1), HighOf(f2)) ELSE Max(HighOf(f1), HighOf(f2))
                   mL == IF ty = "up" THEN Min(LowOf(f1), LowOf(f2)) ELSE Max(LowOf(f1), LowOf(f2))
               IN  IF ty = "up"
                   THEN HighOf(f3) < mH /\ LowOf(f3) < mL
                        /\ At(biList, i + 4).end.price < At(biList, i).end.price
                   ELSE HighOf(f3) > mH /\ LowOf(f3) > mL
                        /\ At(biList, i + 4).end.price > At(biList, i).end.price
       ELSE LET f1 == At(biList, i + 1)
                f2 == At(biList, i + 3)
            IN  IF ty = "up"
                THEN HighOf(f2) < HighOf(f1) /\ LowOf(f2) < LowOf(f1)
                     /\ At(biList, i + 2).end.price < At(biList, i).end.price
                ELSE HighOf(f2) > HighOf(f1) /\ LowOf(f2) > LowOf(f1)
                     /\ At(biList, i + 2).end.price > At(biList, i).end.price

\* C13: each call of checkSegmentDestruction returned the first qualifying candidate
\* from its start index on: a segment that is not the last ends at the first
\* qualifying stroke at or after its first stroke, and from the first stroke of the
\* last segment on no stroke qualifies (the call returned -1).
C13_FirstQualifyingCandidate ==
    pc = "bipivots" =>
        \A k \in 1..Len(segList) :
            IF k < Len(segList)
            THEN /\ Qualifies(SegEndIndex(k), segList[k].type)
                 /\ \A i \in SegStartIndex(k)..(SegEndIndex(k) - 1) : ~Qualifies(i, segList[k].type)
            ELSE \A i \in SegStartIndex(k)..(Len(biList) - 1) : ~Qualifies(i, segList[k].type)

\* A segment ended at a candidate that was not the first stroke scanned and whose
\* feature elements were merged.
C13_Witness ==
    /\ pc = "bipivots"
    /\ \E k \in 1..(Len(segList) - 1) :
           /\ SegEndIndex(k) > SegStartIndex(k)
           /\ FeaturesContained(SegEndIndex(k))

\* The code indices of the candidates the scan for the end of segment k went over.
Scanned(k) ==
    SegStartIndex(k)..(IF k < Len(segList) THEN SegEndIndex(k) ELSE Len(biList) - 4)

\* Segment k was ended at candidate i.
EndedAt(k, i) == k < Len(segList) /\ i = SegEndIndex(k)

\* The feature pair of candidate i turns against a segment of direction ty: [cH, cL],
\* the second element of the pair, lies strictly below (up segment) or strictly above
\* (down segment) the first, [mH, mL].
FeatureTurn(ty, mH, mL, cH, cL) ==
    IF ty = "up" THEN cH < mH /\ cL < mL ELSE cH > mH /\ cL > mL

\* Stroke j ends beyond the end of candidate i, against the direction ty.
Rebound(ty, i, j) ==
    IF ty = "up" THEN At(biList, j).end.price < At(biList, i).end.price
    ELSE At(biList, j).end.price > At(biList, i).end.price

\* C14: for a scanned candidate of the segment's direction whose feature elements 1
\* and 2 are in containment, the decision is taken on the elements merged by the
\* opposite rule (up segment: min of highs, min of lows; down segment: max, max)
\* against element 3; when they are not in containment, on element 1 unmerged
\* against element 2.
C14_FeatureInclusionRule ==
    pc = "bipivots" =>
        \A k \in 1..Len(segList) :
            \A i \in Scanned(k) :
                LET ty == segList[k].type
                    f1 == At(biList, i + 1)
                    f2 == At(biList, i + 3)
                IN  At(biList, i).type = ty =>
                        IF FeaturesContained(i)
                        THEN i + 5 < Len(biList) =>
                                 (EndedAt(k, i) <=>
                                     /\ FeatureTurn(ty,
                                            IF ty = "up" THEN Min(HighOf(f1), HighOf(f2))
                                            ELSE Max(HighOf(f1), HighOf(f2)),
                                            IF ty = "up" THEN Min(LowOf(f1), LowOf(f2))
                                            ELSE Max(LowOf(f1), LowOf(f2)),
                                            HighOf(At(biList, i + 5)), LowOf(At(biList, i + 5)))
                                     /\ Rebound(ty, i, i + 4))
                        ELSE EndedAt(k, i) <=>
                                 /\ FeatureTurn(ty, HighOf(f1), LowOf(f1), HighOf(f2), LowOf(f2))
                                 /\ Rebound(ty, i, i + 2)

\* A scanned candidate of an up segment with contained feature elements was passed
\* over although the elements merged by the up rule (max, max) would have turned
\* down against element 3 and the rebound stayed below the candidate's end.
C14_Witness ==
    /\ pc = "bipivots"
    /\ \E k \in 1..Len(segList) :
           \E i \in Scanned(k) :
               /\ segList[k].type = "up"
               /\ At(biList, i).type = "up"
               /\ FeaturesContained(i)
               /\ i + 5 < Len(biList)
               /\ ~EndedAt(k, i)
               /\ FeatureTurn("up",
                              Max(HighOf(At(biList, i + 1)), HighOf(At(biList, i + 3))),
                              Max(LowOf(At(biList, i + 1)), LowOf(At(biList, i + 3))),
                              HighOf(At(biList, i + 5)), LowOf(At(biList, i + 5)))
               /\ Rebound("up", i, i + 4)

\* The candidates from the first stroke of segment k on that qualify as its end.
Destructions(k) ==
    {i \in SegStartIndex(k)..(Len(biList) - 1) : Qualifies(i, segList[k].type)}

\* C15: when a destruction is confirmed at stroke e (the first qualifying candidate),
\* the segment ends at stroke e's end and is followed by a segment of the opposite
\* direction that begins with stroke e; when none is found the segment ends at the
\* last stroke's end and is the last one.  The first segment begins with stroke 0.
C15_SegmentSequencing ==
    (pc = "bipivots" /\ Len(biList) >= 3) =>
        /\ Len(segList) >= 1
        /\ segList[1].biList[1] = biList[1]
        /\ segList[1].type = biList[1].type
        /\ \A k \in 1..Len(segList) :
               /\ segList[k].start = segList[k].biList[1].start
               /\ IF Destructions(k) # {}
                  THEN LET e == CHOOSE i \in Destructions(k) : \A j \in Destructions(k) : i <= j
                       IN  /\ segList[k].end = At(biList, e).end
                           /\ k < Len(segList)
                           /\ segList[k + 1].type # segList[k].type
                           /\ segList[k + 1].biList[1] = At(biList, e)
                  ELSE /\ k = Len(segList)
                       /\ segList[k].end = Last(biList).end
                       /\ Last(segList[k].biList) = Last(biList)

\* Three segments: two confirmed destructions and an open-ended last segment.
C15_Witness ==
    /\ pc = "bipivots"
    /\ Len(segList) = 3
    /\ segList[2].biList[1] = Last(segList[1].biList)
    /\ segList[3].end = Last(biList).end

(***************************************************************************)
(* Claims on the pivots, under SpecSeg.                                    *)
(***************************************************************************)
\* The swings at code indices j, j+1, j+2 form a base pivot: the first two differ
\* in direction and the min of the three highs exceeds the max of the three lows.
BaseAt(sw, j) ==
    /\ j >= 0 /\ j + 2 < Len(sw)
    /\ At(sw, j).type # At(sw, j + 1).type
    /\ Min3(HighOf(At(sw, j)), HighOf(At(sw, j + 1)), HighOf(At(sw, j + 2)))
           > Max3(LowOf(At(sw, j)), LowOf(At(sw, j + 1)), LowOf(At(sw, j + 2)))

\* The pivots pvs of the swing list sw do not overlap and none was passed over:
\* each starts at the first base triple after the range of the one before (from
\* swing 0 for the first), and no base triple follows the range of the last.
ResumedAfterEach(sw, pvs) ==
    /\ \A n \in 1..(Len(pvs) - 1) : pvs[n + 1].startBiIndex > pvs[n].endBiIndex
    /\ \A n \in 1..Len(pvs) :
           LET from == IF n = 1 THEN 0 ELSE pvs[n - 1].endBiIndex + 1
           IN  /\ pvs[n].startBiIndex >= from
               /\ BaseAt(sw, pvs[n].startBiIndex)
               /\ \A j \in from..(pvs[n].startBiIndex - 1) : ~BaseAt(sw, j)
    /\ \A j \in (IF Len(pvs) = 0 THEN 0 ELSE Last(pvs).endBiIndex + 1)..(Len(sw) - 3) :
           ~BaseAt(sw, j)

\* C16: consecutive pivots of one granularity do not overlap (the later starts after
\* the earlier's last swing), and scanning resumes right after the absorbed range:
\* the triple starting at the swing after it is still taken as a base when it is one.
C16_PivotsDoNotOverlap ==
    /\ pc \in {"segpivots", "analyze"} => ResumedAfterEach(biList, biPivots)
    /\ pc = "analyze" => ResumedAfterEach(segList, segPivots)

\* Two stroke-level pivots, the second starting at the swing right after the first.
C16_Witness ==
    /\ pc = "segpivots"
    /\ Len(biPivots) = 2
    /\ biPivots[2].startBiIndex = biPivots[1].endBiIndex + 1

\* The highs, and the lows, of the swings at code indices s..e.
HighsOf(sw, s, e) == {HighOf(At(sw, j)) : j \in s..e}
LowsOf(sw, s, e) == {LowOf(At(sw, j)) : j \in s..e}

\* The swing at code index j shares more than a point with the band [zd, zg].
OverlapsPivot(sw, j, p) ==
    \E x \in LowOf(At(sw, j))..HighOf(At(sw, j)) :
        x >= p.zd /\ x + 1 <= p.zg /\ x + 1 <= HighOf(At(sw, j))

\* Pivot p of the swing list sw is a base of three swings with its extension.
BaseAndExtension(sw, p) ==
    LET s == p.startBiIndex
        e == p.endBiIndex
    IN  /\ At(sw, s).type # At(sw, s + 1).type
        /\ p.zg \in HighsOf(sw, s, s + 2) /\ \A h \in HighsOf(sw, s, s + 2) : p.zg <= h
        /\ p.zd \in LowsOf(sw, s, s + 2) /\ \A l \in LowsOf(sw, s, s + 2) : p.zd >= l
        /\ e >= s + 2 /\ e <= Len(sw) - 1
        /\ \A j \in (s + 3)..e : OverlapsPivot(sw, j, p)
        /\ e = Len(sw) - 1 \/ ~OverlapsPivot(sw, e + 1, p)
        /\ p.gg \in HighsOf(sw, s, e) /\ \A h \in HighsOf(sw, s, e) : p.gg >= h
        /\ p.dd \in LowsOf(sw, s, e) /\ \A l \in LowsOf(sw, s, e) : p.dd <= l

\* C17: every pivot is a base of three swings of which the first two differ in
\* direction, with zg the min of the three highs and zd the max of the three lows;
\* every swing absorbed after them overlaps [zd, zg], and the pivot ends at the last
\* swing or before one that does not overlap; gg and dd are the max high and the min
\* low over all its swings.
C17_PivotBaseAndExtension ==
    /\ \A n \in 1..Len(biPivots) : BaseAndExtension(biList, biPivots[n])
    /\ \A n \in 1..Len(segPivots) : BaseAndExtension(segList, segPivots[n])

\* A pivot that absorbed a fourth swing beyond its band and stopped before the
\* swing after it.
C17_Witness ==
    /\ pc = "segpivots"
    /\ \E n \in 1..Len(biPivots) :
           /\ biPivots[n].endBiIndex = biPivots[n].startBiIndex + 3
           /\ biPivots[n].endBiIndex < Len(biList) - 1
           /\ biPivots[n].gg > biPivots[n].zg

(***************************************************************************)
(* SpecZig: calculateChanLun on zig-zags that start and end with a whole   *)
(* swing: zero-range bars moving one price unit per bar, swing k lasting   *)
(* steps[k] bars, under every stroke mode.                                 *)
(***************************************************************************)
MaxZigSwings == 6  \* most swings of a zig-zag of SpecZig

ZigSteps == {2, 4}  \* bars, and price units, of one swing

\* Swing k (1-based) rises, when up tells whether the first swing does.
ZigRises(up, k) == (k % 2 = 1) = up

\* The price at the end of swing k (of the first bar for k = 0).
RECURSIVE TurnPrice(_, _, _)
TurnPrice(up, steps, k) ==
    IF k = 0 THEN BasePrice
    ELSE TurnPrice(up, steps, k - 1) + (IF ZigRises(up, k) THEN steps[k] ELSE 0 - steps[k])

\* The price of bar j (code index): one unit per bar away from the end of its swing.
ZigPrice(up, steps, s, j) ==
    LET k == TargetOf(steps, s, j, 1)
    IN  TurnPrice(up, steps, k)
        + (IF ZigRises(up, k) THEN 0 - (PointBar(steps, k) - j) ELSE PointBar(steps, k) - j)

\* The bars of the zig-zag of s swings.
ZigBars(up, steps, s) ==
    [j \in 1..(IF s = 0 THEN 0 ELSE PointBar(steps, s) + 1) |->
        Kline(BarTime(j - 1, HourMs), ZigPrice(up, steps, s, j - 1), ZigPrice(up, steps, s, j - 1))]

InitZig ==
    \E st \in StrokeSettings, s \in 0..MaxZigSwings, up \in BOOLEAN :
        \E steps \in [1..s -> ZigSteps] :
            CallWith(TRUE, ZigBars(up, steps, s), st)

SpecZig == InitZig /\ [][NextChan]_vars

(***************************************************************************)
(* Claims checked under SpecZig.                                           *)
(***************************************************************************)
\* The bars are a zig-zag of s swings of w bars each: equal amplitude, all swings
\* between the same low and the same high.
EqualZigZag(s, w) == \E up \in BOOLEAN : klines = ZigBars(up, [k \in 1..s |-> w], s)

\* The least distance in merged bars the stroke mode asks of a stroke.
MinDistance ==
    CASE settings.biType = "old" -> 4
      [] settings.biType = "new" -> 3
      [] settings.biType = "fractal" -> 0
      [] settings.biType = "custom" -> ConfiguredCount - 1

\* C18: a zig-zag of 5 swings of equal amplitude (long enough to be strokes under
\* the stroke mode) yields exactly one pivot, which spans the 3 inner swings: the
\* strokes are the swings between the four inner turning points.  With further
\* swings the one pivot absorbs every further stroke.
C18_ZigZagYieldsOnePivot ==
    pc = "done" =>
        \A s \in 5..MaxZigSwings, w \in ZigSteps :
            EqualZigZag(s, w) /\ w >= MinDistance =>
                /\ Len(biList) = s - 2
                /\ \A n \in 1..(s - 2) :
                       biList[n].start.index = n * w /\ biList[n].end.index = (n + 1) * w
                /\ Len(pivots) = 1
                /\ pivots[1].level = "bi"
                /\ pivots[1].startBiIndex = 0
                /\ pivots[1].endBiIndex = s - 3
                /\ pivots[1].zg = pivots[1].zd + w
                /\ pivots[1].gg = pivots[1].zg /\ pivots[1].dd = pivots[1].zd

\* The 5-swing zig-zag under the old stroke mode, with its one pivot over the three
\* strokes.
C18_Witness ==
    /\ pc = "done"
    /\ settings.biType = "old"
    /\ EqualZigZag(5, 4)
    /\ Len(biList) = 3
    /\ Len(pivots) = 1
    /\ pivots[1].startBiIndex = 0 /\ pivots[1].endBiIndex = 2


(***************************************************************************)
(* Claims on the first-type signals, under SpecLong.                       *)
(***************************************************************************)
\* The force of stroke i (1-based position in biList): the sum of |hist| over the
\* bars from its start index to its end index.
RECURSIVE HistSum(_, _)
HistSum(from, to) ==
    IF from > to THEN 0 ELSE Abs(At(macd, from).hist) + HistSum(from + 1, to)

Force(i) == HistSum(biList[i].start.index, biList[i].end.index)

\* Up strokes i-2 and i form a double top: stroke i ends higher with a force below
\* 90% of stroke i-2's.
DoubleTop(i) ==
    /\ biList[i].type = "up" /\ biList[i - 2].type = "up"
    /\ biList[i].end.price > biList[i - 2].end.price
    /\ Force(i) * 10 < Force(i - 2) * 9

\* The stroke-level 1S signals at the end of stroke i.
SellSignalsAt(i) ==
    {s \in 1..Len(buySellPoints) :
        /\ buySellPoints[s].type = "1S" /\ ~buySellPoints[s].isSegmentLevel
        /\ buySellPoints[s].time = biList[i].end.time}

MaxFreeMoves == 4  \* the bars after the first that draw their step

RiseLengths == {MinKlines - 1, MinKlines, MinKlines + 1}

\* The steps <<low, high>> of a bar against its predecessor.
Moves == {<<1, 1>>, <<1, 2>>, <<2, 1>>, <<-1, -1>>}

\* The low and the high of bar j (code index); the first bar is wide enough for
\* every drawn narrowing.
RECURSIVE RiseLow(_, _)
RiseLow(mv, j) ==
    IF j = 0 THEN BasePrice
    ELSE RiseLow(mv, j - 1) + (IF j <= Len(mv) THEN mv[j][1] ELSE 1)

RECURSIVE RiseHigh(_, _)
RiseHigh(mv, j) ==
    IF j = 0 THEN BasePrice + MaxFreeMoves
    ELSE RiseHigh(mv, j - 1) + (IF j <= Len(mv) THEN mv[j][2] ELSE 1)

RiseBars(mv, n) ==
    [j \in 1..n |-> Kline(BarTime(j - 1, HourMs), RiseHigh(mv, j - 1), RiseLow(mv, j - 1))]

InitRise ==
    \E st \in StrokeSettings, n \in RiseLengths :
        \E mv \in [1..MaxFreeMoves -> Moves] :
            CallWith(TRUE, RiseBars(mv, n), st)

SpecRise == InitRise /\ [][NextChan]_vars

(***************************************************************************)
(* Claims checked under SpecRise.                                          *)
(***************************************************************************)
\* Every bar's high and low are strictly greater than its predecessor's.
StrictlyRising ==
    \A j \in 2..Len(klines) :
        klines[j].high > klines[j - 1].high /\ klines[j].low > klines[j - 1].low

\* C20: a bar sequence of at least 10 bars, each with high and low strictly greater
\* than its predecessor's, yields no fractal and no stroke, and so no segment, no
\* pivot and no signal.
C20_RisingBarsYieldNothing ==
    (pc \notin {"start", "fractals"} /\ Len(klines) >= 10 /\ StrictlyRising) =>
        /\ fractals = << >>
        /\ pc \notin {"bi"} => rawPoints = << >> /\ biList = << >>
        /\ pc = "done" =>
               /\ segList = << >>
               /\ biPivots = << >> /\ segPivots = << >> /\ pivots = << >>
               /\ buySellPoints = << >>
               /\ ~divergence.isDivergent

\* A rising sequence of 10 bars of changing width, through the whole pipeline.
C20_Witness ==
    /\ pc = "done"
    /\ Len(klines) = 10
    /\ StrictlyRising
    /\ \E j \in 2..Len(klines) :
           klines[j].high - klines[j].low # klines[j - 1].high - klines[j - 1].low
    /\ Len(mergedKlines) = 10
    /\ fractals = << >> /\ biList = << >>


(***************************************************************************)
(* SpecTwice: calculateChanLun called again on the input of the call       *)
(* before, on the zig-zags of SpecZig.  The variables of the finished call *)
(* keep their values: each stage of the new call overwrites its own.       *)
(***************************************************************************)
MaxCalls == 2  \* calls made on one input

CallAgain ==
    /\ pc = "done"
    /\ Len(returned) < MaxCalls
    /\ pc' = "start"
    /\ UNCHANGED <<returned, hasKlines, klines, settings, macd, idx, direction, mergedKlines,
                   fractals, rawPoints, biList, segList, biPivots, segPivots, pivots,
                   buySellPoints, divergence, trend>>

NextTwice == NextChan \/ CallAgain

SpecTwice == InitZig /\ [][NextTwice]_vars

MaxTrendPoints == 9  \* most turning points of a short zig-zag of SpecTrend

\* Swing amplitudes (in AmpUnit) of zig-zags of 24 turning points whose segments
\* form two pivots: the later below the earlier, and two with overlapping bands.
TrendTemplates ==
    {<<2, 1, 1, 4, 2, 2, 1, 2, 3, 1, 4, 3, 1, 4, 1, 4, 4, 1, 3, 2, 1, 2, 2>>,
     <<4, 1, 1, 4, 2, 2, 1, 2, 4, 1, 4, 4, 1, 4, 1, 4, 4, 1, 4, 2, 1, 2, 3>>,
     <<2, 1, 1, 4, 2, 2, 1, 2, 4, 1, 4, 3, 1, 4, 1, 4, 4, 2, 3, 2, 1, 2, 3>>}

TweakAmps == {1, 4}  \* the amplitudes a redrawn swing takes

\* The amplitudes of tpl with swing p redrawn as a (none for p = 0).
Tweaked(tpl, p, a) == [k \in 1..Len(tpl) |-> IF k = p THEN a ELSE tpl[k]]

InitTrend ==
    \E ty \in {"bottom", "top"} :
        \/ \E n \in 0..MaxTrendPoints :
               \E amps \in [1..(IF n = 0 THEN 0 ELSE n - 1) -> Amps] :
                   CallWith(TRUE, ZigZagBars(ty, amps, [k \in 1..n |-> 1], n, HourMs),
                            [biType |-> "fractal", biKCount |-> 0])
        \/ CallWith(TRUE, RiseBars([k \in 1..MaxFreeMoves |-> <<1, 1>>], MinKlines),
                    [biType |-> "fractal", biKCount |-> 0])
        \/ \E tpl \in TrendTemplates :
               \E p \in 0..Len(tpl), a \in TweakAmps :
                   CallWith(TRUE,
                            ZigZagBars(ty, Tweaked(tpl, p, a), [k \in 1..(Len(tpl) + 1) |-> 1],
                                       Len(tpl) + 1, HourMs),
                            [biType |-> "fractal", biKCount |-> 0])

SpecTrend == InitTrend /\ [][NextChan]_vars

(***************************************************************************)
(* Claims checked under SpecTrend.                                         *)
(***************************************************************************)
\* The trend the two most recent pivots of the list pvs give.
ComparedTrend(pvs) ==
    LET latest == pvs[Len(pvs)]
        previous == pvs[Len(pvs) - 1]
    IN  IF latest.zd > previous.zg THEN "up"
        ELSE IF latest.zg < previous.zd THEN "down"
        ELSE "consolidation"

\* C22: with at least 2 segment-level pivots the two most recent of them are
\* compared, otherwise the two most recent stroke-level pivots when there are at
\* least 2: latest.zd > previous.zg gives up, latest.zg < previous.zd gives down,
\* anything else consolidation.  With fewer than 2 pivots at both levels the trend
\* is the direction of the last stroke, and consolidation when there is no stroke.
C22_Trend ==
    pc = "done" =>
        trend = (IF Len(segPivots) >= 2 THEN ComparedTrend(segPivots)
                 ELSE IF Len(biPivots) >= 2 THEN ComparedTrend(biPivots)
                 ELSE IF Len(biList) > 0 THEN Last(biList).type
                 ELSE "consolidation")

\* Two segment-level pivots decide the trend against the stroke-level ones.
C22_Witness ==
    /\ pc = "done"
    /\ Len(segPivots) >= 2 /\ Len(biPivots) >= 2
    /\ ComparedTrend(segPivots) # ComparedTrend(biPivots)
    /\ trend = "down"


(***************************************************************************)
(* SpecThird: calculateChanLun under the new stroke mode on zig-zags whose *)
(* turning points lie three bars apart, but for at most one pair that lies *)
(* one bar apart and so is no stroke.                                      *)
(***************************************************************************)
MaxThirdPoints == 7  \* most turning points of a zig-zag of SpecThird

\* The gaps of n turning points with the short one before point g (none for g = 0).
OneShortGap(n, g) == [k \in 1..n |-> IF k = g THEN 1 ELSE 3]

InitThird ==
    \E n \in 0..MaxThirdPoints, ty \in {"bottom", "top"} :
        \E amps \in [1..(IF n = 0 THEN 0 ELSE n - 1) -> Amps], g \in 0..n :
            CallWith(TRUE, ZigZagBars(ty, amps, OneShortGap(n, g), n, HourMs),
                     [biType |-> "new", biKCount |-> 0])

SpecThird == InitThird /\ [][NextChan]_vars

(***************************************************************************)
(* Claims checked under SpecThird.                                         *)
(***************************************************************************)
\* A stroke-level signal of type ty sits at the end of stroke i (1-based position).
SignalAt(ty, i) ==
    \E s \in 1..Len(buySellPoints) :
        /\ buySellPoints[s].type = ty /\ ~buySellPoints[s].isSegmentLevel
        /\ buySellPoints[s].time = biList[i].end.time
        /\ buySellPoints[s].price = biList[i].end.price

\* The stroke-level pivots that end two strokes before stroke i.
PivotsEndingBefore(i) ==
    {k \in 1..Len(biPivots) : biPivots[k].endBiIndex + 1 = i - 2}

\* C23: a 3B is emitted for stroke i iff a stroke-level pivot ends at stroke i-2,
\* stroke i-1 is an up stroke ending strictly above its zg and stroke i a down stroke
\* ending strictly above zg; a 3S iff stroke i-1 is a down stroke ending strictly
\* below zd and stroke i an up stroke ending strictly below zd.  Every 3B/3S
\* belongs to such a stroke.
C23_ThirdTypeSignals ==
    pc = "done" =>
        /\ \A i \in 3..Len(biList) :
               /\ SignalAt("3B", i) <=>
                      \E k \in PivotsEndingBefore(i) :
                          /\ biList[i - 1].type = "up" /\ biList[i - 1].end.price > biPivots[k].zg
                          /\ biList[i].type = "down" /\ biList[i].end.price > biPivots[k].zg
               /\ SignalAt("3S", i) <=>
                      \E k \in PivotsEndingBefore(i) :
                          /\ biList[i - 1].type = "down" /\ biList[i - 1].end.price < biPivots[k].zd
                          /\ biList[i].type = "up" /\ biList[i].end.price < biPivots[k].zd
        /\ \A s \in 1..Len(buySellPoints) :
               buySellPoints[s].type \in {"3B", "3S"} =>
                   \E i \in 3..Len(biList) : SignalAt(buySellPoints[s].type, i)

\* A 3B was emitted.
C23_Witness ==
    /\ pc = "done"
    /\ \E i \in 3..Len(biList) : SignalAt("3B", i) /\ PivotsEndingBefore(i) # {}


(***************************************************************************)
(* Claims on the segment-level signals, under SpecLong.                    *)
(***************************************************************************)
\* The force of segment i (1-based position in segList).
SegForce(i) == HistSum(segList[i].start.index, segList[i].end.index)

\* A segment-level signal of type ty sits at the end of segment i.
SegSignalAt(ty, i) ==
    \E s \in 1..Len(buySellPoints) :
        /\ buySellPoints[s].type = ty /\ buySellPoints[s].isSegmentLevel
        /\ buySellPoints[s].time = segList[i].end.time
        /\ buySellPoints[s].price = segList[i].end.price

\* C24: segments i and i-2 have equal direction, and a segment-level signal is
\* emitted for segment i iff it is down, ends lower than segment i-2 and has a force
\* below 80% of segment i-2's (1B), or it is up, ends higher and has a force below
\* 80% (1S).  Every segment-level signal is such a 1B or 1S.
C24_SegmentLevelDivergence ==
    pc = "done" =>
        /\ \A i \in 3..Len(segList) :
               /\ segList[i].type = segList[i - 2].type
               /\ SegSignalAt("1B", i) <=>
                      /\ segList[i].type = "down"
                      /\ segList[i].end.price < segList[i - 2].end.price
                      /\ SegForce(i) * 10 < SegForce(i - 2) * 8
               /\ SegSignalAt("1S", i) <=>
                      /\ segList[i].type = "up"
                      /\ segList[i].end.price > segList[i - 2].end.price
                      /\ SegForce(i) * 10 < SegForce(i - 2) * 8
        /\ \A s \in 1..Len(buySellPoints) :
               buySellPoints[s].isSegmentLevel =>
                   /\ buySellPoints[s].type \in {"1B", "1S"}
                   /\ \E i \in 3..Len(segList) : SegSignalAt(buySellPoints[s].type, i)

\* A segment-level 1B was emitted.
C24_Witness ==
    /\ pc = "done"
    /\ \E i \in 3..Len(segList) : SegSignalAt("1B", i) /\ segList[i].type = "down"


(***************************************************************************)
(* Claims on the merge rule, under SpecIncl.                               *)
(***************************************************************************)
\* The merged bars but the last are left as they were.
EarlierBarsKept ==
    /\ Len(mergedKlines') = Len(mergedKlines)
    /\ \A k \in 1..(Len(mergedKlines) - 1) : mergedKlines'[k] = mergedKlines[k]

\* C25: an iteration on a bar in containment with the current merged bar (either
\* range inside the other, ties included) replaces the current merged bar by
\* high = max of the highs, low = max of the lows when the direction is up, and by
\* high = min of the highs, low = min of the lows when it is down; no merged bar is
\* added and the direction stays as it was.
C25_ContainmentMergeRule ==
    [][(/\ pc = "incl" /\ idx < Len(klines)
        /\ Contained(At(klines, idx), Last(mergedKlines))
        /\ direction # 0)
        => LET nextK == At(klines, idx)
               lastK == Last(mergedKlines)
               merged == mergedKlines'[Len(mergedKlines)]
           IN  /\ EarlierBarsKept
               /\ direction' = direction
               /\ direction = 1 =>
                      /\ merged.high = Max(lastK.high, nextK.high)
                      /\ merged.low = Max(lastK.low, nextK.low)
               /\ direction = -1 =>
                      /\ merged.high = Min(lastK.high, nextK.high)
                      /\ merged.low = Min(lastK.low, nextK.low)]_vars

\* A bar was just merged under the down rule, which lowered the merged bar's high.
C25_Witness ==
    /\ pc = "incl"
    /\ direction = -1
    /\ Len(mergedKlines) >= 2
    /\ Last(mergedKlines).originalEndIndex = idx - 1
    /\ Len(Last(mergedKlines).children) >= 2
    /\ Last(mergedKlines).high < Last(mergedKlines).children[1].high


\* C26: while only one merged bar exists (the sequence opened with contained bars
\* and no non-contained pair was seen), the direction is unknown or up, and a merge
\* sets it to up and uses the up rule (max, max); the first non-contained bar sets
\* the direction: up when it lies higher, down when it lies lower.
C26_OpeningDefaultsToUp ==
    [][(pc = "incl" /\ idx < Len(klines) /\ Len(mergedKlines) = 1)
        => LET nextK == At(klines, idx)
               lastK == Last(mergedKlines)
           IN  /\ direction \in {0, 1}
               /\ Contained(nextK, lastK) =>
                      /\ direction' = 1
                      /\ Len(mergedKlines') = 1
                      /\ mergedKlines'[1].high = Max(lastK.high, nextK.high)
                      /\ mergedKlines'[1].low = Max(lastK.low, nextK.low)
               /\ ~Contained(nextK, lastK) =>
                      /\ Len(mergedKlines') = 2
                      /\ direction' = (IF nextK.high > lastK.high THEN 1 ELSE -1)]_vars

\* Two opening bars were merged into the first under the default, which raised its
\* low, and the sequence goes on.
C26_Witness ==
    /\ pc = "incl"
    /\ idx < Len(klines)
    /\ Len(mergedKlines) = 1
    /\ Len(mergedKlines[1].children) = 3
    /\ direction = 1
    /\ mergedKlines[1].low > mergedKlines[1].children[1].low


\* identifyFractals gave a Point of type ty for merged bar k (1-based position).
MarkedAs(ty, k) ==
    \E n \in 1..Len(fractals) :
        /\ fractals[n].type = ty
        /\ fractals[n].index = mergedKlines[k].originalEndIndex

\* C27: an interior merged bar is marked as a top iff its high is strictly greater
\* than both neighbours' highs, and as a bottom iff its low is strictly less than
\* both neighbours' lows; the first and the last merged bar are never marked, every
\* Point belongs to one merged bar, and fewer than 3 merged bars give no Point.
C27_FractalRule ==
    pc = "done" =>
        /\ \A k \in 2..(Len(mergedKlines) - 1) :
               /\ MarkedAs("top", k) <=>
                      /\ mergedKlines[k].high > mergedKlines[k - 1].high
                      /\ mergedKlines[k].high > mergedKlines[k + 1].high
               /\ MarkedAs("bottom", k) <=>
                      /\ mergedKlines[k].low < mergedKlines[k - 1].low
                      /\ mergedKlines[k].low < mergedKlines[k + 1].low
        /\ \A k \in {1, Len(mergedKlines)} \cap DOMAIN mergedKlines :
               ~MarkedAs("top", k) /\ ~MarkedAs("bottom", k)
        /\ \A n \in 1..Len(fractals) :
               \E k \in 2..(Len(mergedKlines) - 1) :
                   fractals[n].index = mergedKlines[k].originalEndIndex
        /\ Len(fractals) <= Len(mergedKlines)
        /\ Len(mergedKlines) < 3 => fractals = << >>

\* A top and a bottom were marked among four merged bars.
C27_Witness ==
    /\ pc = "done"
    /\ Len(mergedKlines) = 4
    /\ Len(fractals) = 2
    /\ fractals[1].type # fractals[2].type


(***************************************************************************)
(* SpecShort: calculateChanLun on the bar sequences of SpecRise and the    *)
(* zig-zags of SpecZig: inputs with no or few fractals, strokes, segments. *)
(***************************************************************************)
InitShort == InitRise \/ InitZig

SpecShort == InitShort /\ [][NextChan]_vars

\* The stages the call has gone through once pc is past the one named.
PastBi == pc \in {"seg", "bipivots", "segpivots", "analyze", "done"}
PastSeg == pc \in {"bipivots", "segpivots", "analyze", "done"}
PastBiPivots == pc \in {"segpivots", "analyze", "done"}
PastSegPivots == pc \in {"analyze", "done"}

\* C28: fewer than 2 fractals give no strokes, fewer than 3 strokes give no segments
\* and no stroke-level pivots, fewer than 3 segments give no segment-level pivots,
\* and with no strokes the analysis gives no signals, inactive divergence and trend
\* consolidation; no stage fails on what it is given (a failing stage is an
\* operator applied outside its domain, which stops the evaluation): the call that
\* went through the stages has returned their results.
C28_StagesShortCircuit ==
    /\ (PastBi /\ Len(fractals) < 2) => biList = << >>
    /\ (PastSeg /\ Len(biList) < 3) => segList = << >>
    /\ (PastBiPivots /\ Len(biList) < 3) => biPivots = << >>
    /\ (PastSegPivots /\ Len(segList) < 3) => segPivots = << >>
    /\ (pc = "done" /\ biList = << >>) =>
           /\ buySellPoints = << >>
           /\ ~divergence.isDivergent
           /\ trend = "consolidation"
    /\ pc = "done" =>
           /\ Len(returned) = 1
           /\ Len(klines) >= MinKlines =>
                  /\ returned[1].biList = biList /\ returned[1].segList = segList
                  /\ returned[1].pivots = pivots
                  /\ returned[1].buySellPoints = buySellPoints

\* A call on 10 bars or more went through every stage with one fractal only.
C28_Witness ==
    /\ pc = "done"
    /\ Len(klines) >= MinKlines
    /\ Len(fractals) = 1
    /\ biList = << >> /\ segList = << >> /\ pivots = << >>


\* The number of places of the list ps that hold the pivot p.
Occurrences(ps, p) == Cardinality({i \in 1..Len(ps) : ps[i] = p})

SortedByStartTime(ps) ==
    \A i, j \in 1..Len(ps) : i < j => ps[i].startTime <= ps[j].startTime

\* C29: the pivot list calculateChanLun returns holds every stroke-level and every
\* segment-level pivot exactly once (each pivot as many times as the two lists hold
\* it together, and nothing else) and is sorted by non-decreasing start time.
C29_CombinedPivots ==
    (pc = "done" /\ Len(klines) >= MinKlines) =>
        LET out == returned[Len(returned)].pivots
            both == biPivots \o segPivots
        IN  /\ Len(out) = Len(biPivots) + Len(segPivots)
            /\ \A k \in 1..Len(both) : Occurrences(out, both[k]) = Occurrences(both, both[k])
            /\ \A k \in 1..Len(both) : Occurrences(both, both[k]) = 1
            /\ SortedByStartTime(out)

\* A call returned pivots of both levels, and a segment-level pivot had to move
\* in front of a stroke-level one.
C29_Witness ==
    /\ pc = "done"
    /\ biPivots # << >> /\ segPivots # << >>
    /\ returned[Len(returned)].pivots = pivots
    /\ pivots # biPivots \o segPivots
    /\ \E i, j \in 1..Len(pivots) :
           i < j /\ pivots[i].level = "seg" /\ pivots[j].level = "bi"


\* The number of input bars processInclusionStrict has gone through.
BarsProcessed ==
    IF Len(klines) = 0 THEN 0 ELSE IF idx < Len(klines) THEN idx ELSE Len(klines)

\* The merged bar owns the input bars of its span (0-based indices), in order.
OwnsItsSpan(mk) ==
    /\ mk.originalStartIndex <= mk.originalEndIndex
    /\ mk.children = SubSeq(klines, mk.originalStartIndex + 1, mk.originalEndIndex + 1)

\* The spans of the merged bars partition the code indices 0..n-1.
SpansPartition(mks, n) ==
    IF n = 0 THEN mks = << >>
    ELSE /\ mks # << >>
         /\ mks[1].originalStartIndex = 0
         /\ \A k \in 1..(Len(mks) - 1) :
                mks[k + 1].originalStartIndex = mks[k].originalEndIndex + 1
         /\ mks[Len(mks)].originalEndIndex = n - 1
         /\ \A k \in 1..Len(mks) : OwnsItsSpan(mks[k])

\* C30: the merged bars' original index spans partition the input: the first span
\* starts at 0, each next span starts at the previous span's end + 1, the last span
\* ends at n-1, and each merged bar owns exactly the bars of its span, in order;
\* after every iteration for the bars gone through, and so on the output for all.
C30_SpansPartitionInput ==
    /\ SpansPartition(mergedKlines, BarsProcessed)
    /\ pc = "done" => SpansPartition(mergedKlines, Len(klines))

\* The output holds a merged bar between two others that owns more than one bar.
C30_Witness ==
    /\ pc = "done"
    /\ \E k \in 2..(Len(mergedKlines) - 1) :
           /\ mergedKlines[k].originalEndIndex > mergedKlines[k].originalStartIndex
           /\ Len(mergedKlines[k].children) = 2


(***************************************************************************)
(* SpecForce: analyzeStructure on drawn swing lists (strokes or segments)  *)
(* and MACD series that are whole, too short, or have missing entries.     *)
(***************************************************************************)
ForceShapes == {"flat", "decay", "rise", "short", "holes", "late", "none"}

\* The prices the swings are drawn from.
ForcePrices == {1, 2, 3}

InitForce ==
    \E n \in 0..MaxSwings, level \in {"bi", "seg"} :
        \E from \in [1..n -> ForcePrices], to \in [1..n -> ForcePrices] :
            LET swings == [k \in 1..n |-> Swing(k, from[k], to[k])]
            IN  /\ \A k \in 1..n : from[k] # to[k]
                /\ pc = "bipivots"
                /\ NoInput /\ NoInclusion /\ NoPivots /\ NoSignals /\ NoCalls
                /\ fractals = << >> /\ rawPoints = << >>
                /\ biList = (IF level = "bi" THEN swings ELSE << >>)
                /\ segList = (IF level = "seg"
                              THEN [k \in 1..n |-> ChanSeg(swings[k].start, swings[k].end,
                                                           swings[k].type, <<swings[k]>>)]
                              ELSE << >>)

\* analyzeStructure on the lists at hand, with a MACD series of one of the shapes
\* over the bar indices of the swings.
AnalyzeSwings ==
    /\ pc = "analyze"
    /\ \E shape \in ForceShapes :
           LET m == MacdShape(shape, 2 * (Len(biList) + Len(segList)))
               analysis == analyzeStructure(biList, segList, biPivots, segPivots, m, klines)
           IN  /\ macd' = m
               /\ buySellPoints' = analysis.buySellPoints
               /\ divergence' = analysis.divergence
               /\ trend' = analysis.trend
    /\ pc' = "done"
    /\ UNCHANGED <<returned, hasKlines, klines, settings, idx, direction, mergedKlines, fractals,
                   rawPoints, biList, segList, biPivots, segPivots, pivots>>

NextForce == GeneratePivotsFromBi \/ GeneratePivotsFromSeg \/ AnalyzeSwings

SpecForce == InitForce /\ [][NextForce]_vars

\* The code indices of the swing's range that hold a MACD entry.
EntriesOf(sw) ==
    {i \in sw.start.index..sw.end.index : i < Len(macd) /\ At(macd, i).present}

RECURSIVE SumAbsHist(_)
SumAbsHist(S) ==
    IF S = {} THEN 0
    ELSE LET i == CHOOSE x \in S : TRUE
         IN  Abs(At(macd, i).hist) + SumAbsHist(S \ {i})

OutsideSeries(sw) == sw.start.index < 0 \/ sw.end.index >= Len(macd)

\* The force is 0 outside the series, else the sum of |hist| over the entries held.
ForceAsStated(sw) ==
    /\ getSwingMACD(macd, sw) >= 0
    /\ OutsideSeries(sw) => getSwingMACD(macd, sw) = 0
    /\ ~OutsideSeries(sw) => getSwingMACD(macd, sw) = SumAbsHist(EntriesOf(sw))

\* A first-type signal of the given granularity at the end of the swing.
FirstTypeSignalAt(sw, segLevel) ==
    \E k \in 1..Len(buySellPoints) :
        /\ buySellPoints[k].type \in {"1B", "1S"}
        /\ buySellPoints[k].isSegmentLevel = segLevel
        /\ buySellPoints[k].time = sw.end.time
        /\ buySellPoints[k].price = sw.end.price

NoSignalOnZeroForce(swings, segLevel) ==
    \A i \in 3..Len(swings) :
        getSwingMACD(macd, swings[i - 2]) = 0 => ~FirstTypeSignalAt(swings[i], segLevel)

\* C31: a swing's force is a non-negative sum, 0 when its bar index range falls
\* outside the MACD series, and missing entries are skipped; when the force of
\* swing i-2 is 0, no first-type divergence signal is emitted for swing i, at the
\* stroke level and at the segment level.
C31_ZeroForceGuard ==
    pc = "done" =>
        /\ \A k \in 1..Len(biList) : ForceAsStated(biList[k])
        /\ \A k \in 1..Len(segList) : ForceAsStated(segList[k])
        /\ NoSignalOnZeroForce(biList, FALSE)
        /\ NoSignalOnZeroForce(segList, TRUE)

\* The price test of a first-type signal passes for swing i, swing i-2 lies on
\* missing entries only and has force 0, swing i has a positive force, and the
\* analysis emitted a first-type signal for another swing.
C31_Witness ==
    /\ pc = "done"
    /\ \E i \in 3..Len(segList) :
           /\ segList[i].type = "down"
           /\ segList[i].end.price < segList[i - 2].end.price
           /\ ~OutsideSeries(segList[i - 2]) /\ EntriesOf(segList[i - 2]) = {}
           /\ getSwingMACD(macd, segList[i - 2]) = 0
           /\ getSwingMACD(macd, segList[i]) > 0
           /\ ~FirstTypeSignalAt(segList[i], TRUE)
    /\ buySellPoints # << >>


\* C32: the output stroke list is time-ordered: each stroke starts strictly before
\* it ends, consecutive strokes have strictly increasing start times, and a stroke
\* never ends after the next one starts; each stroke is tagged up iff it starts at
\* a bottom Point and down iff it starts at a top Point.
C32_StrokesTimeOrdered ==
    /\ \A k \in 1..Len(biList) :
           /\ biList[k].start.time < biList[k].end.time
           /\ biList[k].type = "up" <=> biList[k].start.type = "bottom"
           /\ biList[k].type = "down" <=> biList[k].start.type = "top"
    /\ \A k \in 1..(Len(biList) - 1) :
           /\ biList[k].start.time < biList[k + 1].start.time
           /\ biList[k].end.time <= biList[k + 1].start.time

\* The call returned strokes of both tags, two of them adjacent and two of them
\* apart, the pair between them having failed the distance test.
C32_Witness ==
    /\ pc = "done"
    /\ \E k \in 1..(Len(biList) - 1) : biList[k].end.time = biList[k + 1].start.time
    /\ \E k \in 1..(Len(biList) - 1) : biList[k].end.time < biList[k + 1].start.time
    /\ \E j, k \in 1..Len(biList) : biList[j].type = "up" /\ biList[k].type = "down"
    /\ returned[Len(returned)].biList = biList


\* The final segment is the open-ended one: it runs to the last stroke.
EndsOpen == Last(Last(segList).biList) = Last(biList) /\ Last(segList).end = Last(biList).end

\* The destructions that closed segments 1..Len(segList)-1 advance: the next segment
\* starts at the terminating stroke and its own destruction comes strictly later.
DestructionsAdvance ==
    \A k \in 1..(Len(segList) - 1) :
        /\ SegStartIndex(k + 1) = SegEndIndex(k)
        /\ k + 1 < Len(segList) => SegEndIndex(k + 1) > SegEndIndex(k)

\* C33: generateSegmentsStrict terminates for every stroke list: each confirmed
\* destruction returns an index not below the current segment's start index, and
\* strictly above it for every segment after the first (the terminating stroke has
\* the old direction, so it cannot be the next segment's candidate); hence the
\* number of emitted segments never exceeds the number of strokes and the loop
\* always reaches the open-ended final segment.
C33_SegmentLoopTerminates ==
    (PastSeg /\ Len(biList) >= 3) =>
        /\ segList # << >>
        /\ \A k \in 1..(Len(segList) - 1) :
               /\ SegEndIndex(k) >= SegStartIndex(k)
               /\ k > 1 => SegEndIndex(k) > SegStartIndex(k)
        /\ DestructionsAdvance
        /\ Len(segList) <= Len(biList)
        /\ EndsOpen

\* C33 as stated: every confirmed destruction, the first segment's included,
\* returns an index strictly greater than the segment's start index.
C33_AsStated ==
    (PastSeg /\ Len(biList) >= 3) =>
        /\ segList # << >>
        /\ \A k \in 1..(Len(segList) - 1) : SegEndIndex(k) > SegStartIndex(k)
        /\ Len(segList) <= Len(biList)
        /\ EndsOpen

\* The first segment was destroyed at its first stroke, the second one later, and
\* the third segment is open-ended.
C33_Witness ==
    /\ pc = "bipivots"
    /\ Len(segList) = 3
    /\ SegEndIndex(1) = SegStartIndex(1)
    /\ SegEndIndex(2) > SegStartIndex(2)
    /\ EndsOpen


(***************************************************************************)
(* SpecMix: calculateChanLun on bar sequences that open with drawn bars of *)
(* every shape (containment, ties and zero-range bars included) and go on  *)
(* with a fixed zig-zag of zero-range bars, so that the call has the bars  *)
(* it needs to run its stages.                                             *)
(***************************************************************************)
MaxMixBars == 5  \* the drawn bars at the head of the sequence

\* The prices of the zero-range bars that follow the drawn ones.
TailPrices == <<2, 4, 1, 3, 2>>

\* The <<high, low>> shapes of the drawn bars, low <= high.
MixShapes == {hl \in {1, 2, 3} \X {1, 2, 3} : hl[2] <= hl[1]}

MixHeads(n) ==
    {[k \in 1..n |-> Kline(BarTime(k - 1, HourMs), f[k][1], f[k][2])] : f \in [1..n -> MixShapes]}

MixBars(head) ==
    head \o [j \in 1..Len(TailPrices) |->
                Kline(BarTime(Len(head) + j - 1, HourMs), TailPrices[j], TailPrices[j])]

MixSettings == {[biType |-> "fractal", biKCount |-> 0], [biType |-> "custom", biKCount |-> 3]}

InitMix ==
    \E st \in MixSettings :
        \/ CallWith(FALSE, << >>, st)
        \/ \E head \in MixHeads(MaxMixBars) : CallWith(TRUE, MixBars(head), st)

SpecMix == InitMix /\ [][NextChan]_vars

\* The Points of the list alternate between top and bottom.
Alternates(frs) == \A k \in 1..(Len(frs) - 1) : frs[k].type # frs[k + 1].type

\* C34: the fractal list identifyFractals produces from the output of
\* processInclusionStrict alternates strictly between top and bottom, so the
\* alternation filter of generateBi neither discards nor replaces a Point of it.
C34_FractalsAlternate ==
    /\ Alternates(fractals)
    /\ (PastBi /\ Len(fractals) >= 2) => rawPoints = fractals

\* The filter was given four fractals or more, found behind merged bars.
C34_Witness ==
    /\ pc = "seg"
    /\ Len(fractals) >= 4
    /\ Len(mergedKlines) < Len(klines)
    /\ \E k \in 1..Len(fractals), j \in 1..Len(mergedKlines) :
           /\ mergedKlines[j].originalEndIndex = fractals[k].index
           /\ mergedKlines[j].originalEndIndex > mergedKlines[j].originalStartIndex
    /\ rawPoints = fractals


\* The stroke's end price lies on the side of its start price that its tag names.
MovesAsTagged(bi) ==
    /\ bi.type = "up" => bi.end.price > bi.start.price
    /\ bi.type = "down" => bi.end.price < bi.start.price

\* C35: for bars with high >= low, every stroke the pipeline produces moves in its
\* tagged direction: an up stroke ends strictly above its start price and a down
\* stroke strictly below it.
C35_StrokesMoveAsTagged ==
    (\A j \in 1..Len(klines) : klines[j].high >= klines[j].low) =>
        \A k \in 1..Len(biList) : MovesAsTagged(biList[k])

\* The call returned strokes of both tags, one of them an up stroke between two
\* bars wider than a single price whose price ranges overlap.
C35_Witness ==
    /\ pc = "done"
    /\ \E k \in 1..Len(biList) : biList[k].type = "down" /\ MovesAsTagged(biList[k])
    /\ \E k \in 1..Len(biList), i, j \in 1..Len(mergedKlines) :
           /\ biList[k].type = "up"
           /\ mergedKlines[i].time = biList[k].start.time
           /\ mergedKlines[j].time = biList[k].end.time
           /\ mergedKlines[i].high > mergedKlines[i].low
           /\ mergedKlines[j].high > mergedKlines[j].low
           /\ mergedKlines[j].low <= mergedKlines[i].high


\* Merged bar b lies strictly above merged bar a in high and in low.
StrictlyAbove(b, a) == b.high > a.high /\ b.low > a.low

\* C36: every non-contained bar resolves the direction accumulator to up or down:
\* adjacent merged bars are strictly higher in both high and low or strictly lower
\* in both, and while two or more merged bars exist the accumulator is non-zero and
\* is the relation of the current merged bar to its predecessor, also after merges
\* into the current one; so no merge infers the direction from the previous merged
\* bar.
C36_DirectionResolved ==
    /\ \A k \in 1..(Len(mergedKlines) - 1) :
           \/ StrictlyAbove(mergedKlines[k + 1], mergedKlines[k])
           \/ StrictlyAbove(mergedKlines[k], mergedKlines[k + 1])
    /\ Len(mergedKlines) >= 2 =>
           LET lastK == mergedKlines[Len(mergedKlines)]
               prevK == mergedKlines[Len(mergedKlines) - 1]
           IN  /\ direction \in {1, -1}
               /\ direction = 1 <=> StrictlyAbove(lastK, prevK)
               /\ direction = -1 <=> StrictlyAbove(prevK, lastK)
    /\ (pc = "incl" /\ idx < Len(klines) /\ Contained(At(klines, idx), Last(mergedKlines))
            /\ direction = 0) => Len(mergedKlines) = 1

\* A bar is about to be merged into the second merged bar, which has taken a bar
\* already and lies below the first: the accumulator says down.
C36_Witness ==
    /\ pc = "incl"
    /\ idx < Len(klines)
    /\ Len(mergedKlines) = 2
    /\ Len(mergedKlines[2].children) = 2
    /\ Contained(At(klines, idx), mergedKlines[2])
    /\ direction = -1
    /\ StrictlyAbove(mergedKlines[1], mergedKlines[2])


\* Segment k runs from its first owned stroke's start to its last owned stroke's end.
SpansOwnedStrokes(seg) ==
    /\ Len(seg.biList) >= 1
    /\ seg.start = seg.biList[1].start
    /\ seg.end = Last(seg.biList).end

\* C37: every emitted segment owns at least one stroke, starts at its first owned
\* stroke's start and ends at its last owned stroke's end; a segment closed by a
\* destruction has a last owned stroke of its own direction, and every segment after
\* the first has a first owned stroke of the opposite direction, so that a segment's
\* end Point is not the next segment's start Point.
C37_SegmentsAndOwnedStrokes ==
    PastSeg =>
        /\ \A k \in 1..Len(segList) : SpansOwnedStrokes(segList[k])
        /\ \A k \in 1..(Len(segList) - 1) :
               /\ Last(segList[k].biList).type = segList[k].type
               /\ segList[k].end # segList[k + 1].start
        /\ \A k \in 2..Len(segList) : segList[k].biList[1].type # segList[k].type

\* Three segments: the second owns three strokes or more, begins with the stroke
\* that ended the first and ends with the stroke the third begins with.
C37_Witness ==
    /\ pc = "bipivots"
    /\ Len(segList) = 3
    /\ Len(segList[2].biList) >= 3
    /\ segList[2].biList[1] = Last(segList[1].biList)
    /\ segList[2].biList[1].type = segList[1].type
    /\ segList[3].biList[1] = Last(segList[2].biList)
    /\ segList[3].biList[1].type = segList[2].type


(***************************************************************************)
(* The code indices the scans read, by the paths of the code.              *)
(***************************************************************************)
\* isF2inF1 || isF1inF2 for the feature elements of candidate i.
hasInclusionAt(b, i) ==
    LET f1 == At(b, i + 1)
        f2 == At(b, i + 3)
    IN  \/ HighOf(f2) <= HighOf(f1) /\ LowOf(f2) >= LowOf(f1)
        \/ HighOf(f1) <= HighOf(f2) /\ LowOf(f1) >= LowOf(f2)

\* A plausible slip: the third feature element read without the test on i + 5.
CandidateReadsUnguarded(b, i, ty) ==
    {i} \cup (IF At(b, i).type # ty THEN {}
              ELSE {i + 1, i + 3}
                   \cup (IF hasInclusionAt(b, i) THEN {i + 5, i + 4} ELSE {i + 2}))

\* The indices one iteration of checkSegmentDestruction reads at candidate i: the
\* candidate, the feature elements i + 1 and i + 3, the third element i + 5 when
\* they are in containment and it exists, and the stroke between the compared pair
\* (read when the pair turns against the segment; counted for every pair here).
CandidateReads(b, i, ty) ==
    {i} \cup (IF At(b, i).type # ty THEN {}
              ELSE {i + 1, i + 3}
                   \cup (IF hasInclusionAt(b, i)
                         THEN (IF i + 5 < Len(b) THEN {i + 5, i + 4} ELSE {})
                         ELSE {i + 2}))

\* The indices checkSegmentDestruction reads from candidate i on.
RECURSIVE DestructionReads(_, _, _)
DestructionReads(b, i, ty) ==
    IF ~(i < Len(b) - 3) THEN {}
    ELSE CandidateReads(b, i, ty)
         \cup (IF Destroys(b, i, ty) THEN {} ELSE DestructionReads(b, i + 1, ty))

\* The indices the extension loop of generatePivotsFromBi reads from j on.
RECURSIVE ExtendReads(_, _, _, _)
ExtendReads(b, j, zg, zd) ==
    IF ~(j < Len(b)) THEN {}
    ELSE {j} \cup (IF OverlapsBand(HighOf(At(b, j)), LowOf(At(b, j)), zg, zd)
                   THEN ExtendReads(b, j + 1, zg, zd) ELSE {})

\* The indices the for loop of generatePivotsFromBi reads from i on, with the index
\* the last pushed pivot ends at (-1 for none).
RECURSIVE PivotReads(_, _, _)
PivotReads(b, i, lastEnd) ==
    IF ~(i <= Len(b) - 3) THEN {}
    ELSE LET b1 == At(b, i)
             b2 == At(b, i + 1)
             b3 == At(b, i + 2)
             zg == BaseZG(b1, b2, b3)
             zd == BaseZD(b1, b2, b3)
             ext == ExtendLoop(b, i + 3, zg, zd,
                               [endBiIdx |-> i + 2,
                                gg |-> Max3(HighOf(b1), HighOf(b2), HighOf(b3)),
                                dd |-> Min3(LowOf(b1), LowOf(b2), LowOf(b3))])
         IN  {i, i + 1, i + 2}
             \cup (IF b1.type = b2.type THEN PivotReads(b, i + 1, lastEnd)
                   ELSE IF ~ValidOverlap(zg, zd) THEN PivotReads(b, i + 1, lastEnd)
                   ELSE ExtendReads(b, i + 3, zg, zd)
                        \cup (IF i > lastEnd
                              THEN {ext.endBiIdx}
                                   \cup PivotReads(b, ResumeIndex(ext.endBiIdx), ext.endBiIdx)
                              ELSE PivotReads(b, i + 1, lastEnd)))

\* The code indices of the list.
IndicesOf(b) == 0..(Len(b) - 1)

\* C38: no scan reads a list out of bounds: checkSegmentDestruction reads strokes
\* i, i+1, i+3, i+2 or i+4, and i+5 inside the stroke list only, for every list and
\* every start index and direction (a merged feature pair with no stroke i+5 skips
\* the candidate), and generatePivotsFromBi reads the swings i..i+2 and j inside the
\* swing list only, also after the scan index was moved to endBiIdx - 1.
C38_ReadsInsideLists ==
    /\ \A startIndex \in 0..Len(biList), ty \in {"up", "down"} :
           DestructionReads(biList, startIndex, ty) \subseteq IndicesOf(biList)
    /\ PivotReads(biList, 0, -1) \subseteq IndicesOf(biList)
    /\ PivotReads(pseudoBiList(segList), 0, -1) \subseteq IndicesOf(segList)

\* The scans have run on a list where a candidate with contained feature elements
\* has no stroke i+5 and is skipped, and where a pivot was extended to the last
\* stroke, so that the scan index was moved to the last stroke but one.
C38_Witness ==
    /\ pc = "segpivots"
    /\ \E i \in 0..(Len(biList) - 4) :
           /\ At(biList, i).type = segList[Len(segList)].type
           /\ hasInclusionAt(biList, i)
           /\ ~(i + 5 < Len(biList))
           /\ i >= SegStartIndex(Len(segList))
    /\ biPivots # << >>
    /\ Last(biPivots).endBiIndex = Len(biList) - 1
    /\ Last(biPivots).endBiIndex - Last(biPivots).startBiIndex >= 3

====
